---- MODULE Spec2Model ----
(***************************************************************************)
(* Verification model of the PerplFoundation dex-sdk indexing engine:      *)
(*   - the polled raw block stream            (src/src/stream.rs)          *)
(*   - Perpetual order bookkeeping            (src/src/state/perpetual.rs) *)
(*   - Order life cycle and expiry   (src/crates/sdk/src/state/order.rs)   *)
(*   - the consumers that hand a snapshot over to the stream               *)
(*   - the trade stream          (src/crates/sdk/src/stream/trade.rs)      *)
(*   - the indexed state shared under a lock  (.../testing/indexer.rs)     *)
(*   - the contract's orders, the snapshot built from them and the replay  *)
(*     of its blocks                          (src/tests/events.rs)        *)
(*   - the order book view       (.../state/l3_book/view.rs)               *)
(*   - the CLI commands and main              (src/crates/cli/src)         *)
(***************************************************************************)
EXTENDS Integers, Sequences, FiniteSets, TLC

\* ------------------------------------------------------------------------
\* Bounds of the model
\* ------------------------------------------------------------------------
MaxBlock == 2
MaxItems == 3
MaxSleeps == 3
MaxOrderId == 2
MaxSize == 2
MaxEvents == 2
MaxExBlock == 3
ExpiryBlock == 2
MaxPerpOrderId == 3
MaxTradeEvents == 3
MaxTradeBlocks == 2
MaxTxIndex == 1
MaxReaders == 2
MaxRequests == 1
MaxReplayBlock == 4
MaxCliBlock == 3
MaxNumBlocks == 2
ReplayExpiryBlock == 3
MaxPositionSize == 2
MaxBalance == 3
MaxRequestEvents == 4
MaxRequestBlocks == 1
MaxPriceBlock == 4
MaxLot == 2
MaxFillEvents == 4
MaxFillBlocks == 1

\* ------------------------------------------------------------------------
\* State
\* ------------------------------------------------------------------------
VARIABLES
    chain,      \* provider side: chain[n] = logs of block n, Len(chain) = head
    block_num,  \* raw stream: the unfold state, the block polled next
    spc,        \* raw stream: position of the stream future
    blockAns,   \* raw stream: answer of the in-flight get_block request
    logsAns,    \* raw stream: answer of the in-flight get_logs request
    items,      \* raw stream: the items yielded so far, in order
    nMisses,    \* history: polls that found the block not available
    nSleeps,    \* history: poll-interval sleeps completed
    callMisses, \* history: misses since the consumer's current poll began
    from,       \* raw stream: the block number the stream was started with
    exch,       \* the Exchange snapshot kept up to date by apply_events
    lastRes,    \* the result of the last apply_events call
    notes,      \* history: what the last chain block did to expired and filled orders
    consumer,   \* which consumer of the repository drives stream and snapshot
    snapshotAt, \* the block B the consumer's snapshot was taken at
    running,    \* the consumer's loop has not stopped
    handed,     \* history: block numbers handed to apply_events, in order
    processor,  \* trade stream: the TradeProcessor (context, pending fills, tx index)
    tradeItems, \* trade stream: the items yielded so far, in order
    panicked,   \* trade stream: process_block aborted with a panic
    writer,     \* indexer: the write lock of the shared exchange is held
    readers,    \* indexer: number of read guards of the shared exchange alive
    ipc,        \* indexer: position of Indexer::run
    batch,      \* indexer: the batch the loop body is working on
    evIdx,      \* indexer: events of the batch apply_events has applied so far
    saved,      \* indexer: the exchange as it was when apply_events began
    committed,  \* history: the exchange after the last block applied whole
    replica,    \* replay: a second exchange built from an equal snapshot
    contract,   \* replay: the order storage of the exchange contract
    cancelled,  \* CLI: the cancellation token has been cancelled
    blocks_left,\* CLI: the loop's remaining-block counter (Option<u64>)
    cmdResult,  \* CLI: what the command returned to main
    cpc,        \* CLI: the command's position in its render loop
    cliItem,    \* CLI: the item the stream handed to the loop
    num_blocks, \* CLI: the --num-blocks argument (Option<u64>)
    exit_code   \* CLI: the status the process exited with

streamVars == <<chain, block_num, spc, blockAns, logsAns, items, nMisses, nSleeps, callMisses, from>>

exchVars == <<exch, lastRes>>

chainVars == <<notes>>

consumerVars == <<consumer, snapshotAt, running, handed>>

tradeVars == <<processor, tradeItems, panicked>>

indexerVars == <<writer, readers, ipc, batch, evIdx, saved, committed>>

replayVars == <<replica, contract>>

cliVars == <<cancelled, blocks_left, cmdResult, cpc, cliItem, num_blocks, exit_code>>

vars == <<streamVars, exchVars, chainVars, consumerVars, tradeVars, indexerVars,
          replayVars, cliVars>>

\* ------------------------------------------------------------------------
\* Orders (src/crates/sdk/src/state/order.rs, types/order.rs, types/mod.rs)
\* ------------------------------------------------------------------------

\* Option<T>: None is the empty sequence, Some(v) the one-element sequence.
None == <<>>
Some(v) == <<v>>
UnwrapOr(opt, d) == IF opt = None THEN d ELSE opt[1]
OrElse(opt, other) == IF opt = None THEN other ELSE opt

\* OrderId is NonZeroU16: 0 is the null order id, used for "no link".
NoOrderId == 0

\* Block timestamp of block n as the provider reports it.
BlockTimestamp(n) == 10 * n

\* StateInstant::new(block_number, block_timestamp)
StateInstant(n, ts) == [block_number |-> n, block_timestamp |-> ts]

\* The instant of chain block n.
InstantOf(n) == StateInstant(n, BlockTimestamp(n))

\* StateInstant::next
InstantNext(i) == StateInstant(i.block_number + 1, i.block_timestamp)

\* OrderType::side
Side(type) ==
    IF type \in {"OpenLong", "CloseShort"} THEN "Bid" ELSE "Ask"

\* Mutant: an order counts as expired only after its expiry block.
is_expired_Strict(o) ==
    o.expiry_block # 0 /\ o.expiry_block < o.instant.block_number

\* Order::is_expired
is_expired(o) ==
    o.expiry_block # 0 /\ o.expiry_block <= o.instant.block_number

\* Mutant: the order of a snapshot entry does not get the snapshot's instant.
from_snapshot_NoInstant(instant, entry) ==
    IF entry.orderId = 0
    THEN [err |-> "ZeroOrderId", order |-> None]
    ELSE [err |-> "",
          order |-> Some([instant |-> StateInstant(0, 0),
                          order_id |-> entry.orderId,
                          type |-> entry.orderType,
                          price |-> entry.price,
                          size |-> entry.size,
                          placed_size |-> None,
                          expiry_block |-> entry.expiryBlock])]

\* Order::from_snapshot: the order of a snapshot entry, or the error for the
\* null order id; links to order id 0 are no links.
from_snapshot(instant, entry) ==
    IF entry.orderId = 0
    THEN [err |-> "ZeroOrderId", order |-> None]
    ELSE [err |-> "",
          order |-> Some([instant |-> instant,
                          order_id |-> entry.orderId,
                          type |-> entry.orderType,
                          price |-> entry.price,
                          size |-> entry.size,
                          placed_size |-> None,
                          expiry_block |-> entry.expiryBlock])]

\* Order::placed: the order an OrderPlaced event creates from the request
\* context (type, price, expiry of the OrderRequest).
placed(instant, ctx, order_id, size) ==
    [instant |-> instant,
     order_id |-> order_id,
     type |-> ctx.type,
     price |-> ctx.price,
     size |-> size,
     placed_size |-> Some(size),
     expiry_block |-> ctx.expiry_block]

\* Order::updated
updated(o, instant, price, size, placed_size, expiry_block) ==
    [instant |-> instant,
     order_id |-> o.order_id,
     type |-> o.type,
     price |-> UnwrapOr(price, o.price),
     size |-> UnwrapOr(size, o.size),
     placed_size |-> OrElse(placed_size, o.placed_size),
     expiry_block |-> UnwrapOr(expiry_block, o.expiry_block)]

\* Mutant: no order is ever turned expired.
update_if_expired_Never(o, instant) == [order |-> o, changed |-> FALSE]

\* Mutant: expiry block 0 is compared like any other block number.
update_if_expired_NoZeroCheck(o, instant) ==
    IF /\ o.expiry_block <= instant.block_number
       /\ ~is_expired(o)
    THEN [order |-> [o EXCEPT !.instant = instant], changed |-> TRUE]
    ELSE [order |-> o, changed |-> FALSE]

\* Order::update_if_expired: the order afterwards and the returned flag.
update_if_expired(o, instant) ==
    IF /\ o.expiry_block # 0
       /\ o.expiry_block <= instant.block_number
       /\ ~is_expired(o)
    THEN [order |-> [o EXCEPT !.instant = instant], changed |-> TRUE]
    ELSE [order |-> o, changed |-> FALSE]

\* ------------------------------------------------------------------------
\* Finite maps (HashMap / BTreeMap)
\* ------------------------------------------------------------------------
EmptyMap == [x \in {} |-> 0]
MapPut(f, k, v) == [x \in DOMAIN f \cup {k} |-> IF x = k THEN v ELSE f[x]]
MapDel(f, k) == [x \in DOMAIN f \ {k} |-> f[x]]

\* ------------------------------------------------------------------------
\* L3 order book: price levels with FIFO queues linked through the orders
\* (src/crates/sdk/src/state/l3_book/order.rs; the level and book operations
\* follow the specification, section 4.2, and tests/order_book.rs)
\* ------------------------------------------------------------------------

\* BookOrder::new: a book order, initially unlinked.
BookOrder(order) == [order |-> order, prev |-> NoOrderId, next |-> NoOrderId]

EmptyLevel == [size |-> 0, num_orders |-> 0, head |-> NoOrderId, tail |-> NoOrderId]

EmptyBook == [orders |-> EmptyMap, asks |-> EmptyMap, bids |-> EmptyMap]

SideLevels(book, side) == IF side = "Ask" THEN book.asks ELSE book.bids

WithSideLevels(book, side, lv) ==
    IF side = "Ask" THEN [book EXCEPT !.asks = lv] ELSE [book EXCEPT !.bids = lv]

\* What an order contributes to its level's aggregates: nothing once expired.
LiveSize(o) == IF is_expired(o) THEN 0 ELSE o.size
LiveCount(o) == IF is_expired(o) THEN 0 ELSE 1

\* OrderBook::add_order: queue the order at the tail of its level, creating
\* the level if absent; an id already in the book is an error.
BookAdd(book, order) ==
    LET id == order.order_id
        side == Side(order.type)
        lv == SideLevels(book, side)
        old == IF order.price \in DOMAIN lv THEN lv[order.price] ELSE EmptyLevel
        level == [size |-> old.size + LiveSize(order),
                  num_orders |-> old.num_orders + LiveCount(order),
                  head |-> IF old.head = NoOrderId THEN id ELSE old.head,
                  tail |-> id]
        linked == IF old.tail # NoOrderId
                  THEN [book.orders EXCEPT ![old.tail].next = id]
                  ELSE book.orders
        orders == MapPut(linked, id, [BookOrder(order) EXCEPT !.prev = old.tail])
    IN IF id \in DOMAIN book.orders
       THEN [err |-> "DuplicateOrderId", book |-> book]
       ELSE [err |-> "",
             book |-> WithSideLevels([book EXCEPT !.orders = orders], side,
                                     MapPut(lv, order.price, level))]

\* Mutant: the neighbours of a removed order keep their pointers to it.
BookRemove_KeepLinks(book, id) ==
    IF id \notin DOMAIN book.orders
    THEN [err |-> "OrderNotFound", book |-> book]
    ELSE
    LET bo == book.orders[id]
        side == Side(bo.order.type)
        lv == SideLevels(book, side)
        old == lv[bo.order.price]
        level == [size |-> old.size - LiveSize(bo.order),
                  num_orders |-> old.num_orders - LiveCount(bo.order),
                  head |-> IF old.head = id THEN bo.next ELSE old.head,
                  tail |-> IF old.tail = id THEN bo.prev ELSE old.tail]
        lv2 == IF level.head = NoOrderId
               THEN MapDel(lv, bo.order.price)
               ELSE MapPut(lv, bo.order.price, level)
    IN [err |-> "",
        book |-> WithSideLevels([book EXCEPT !.orders = MapDel(book.orders, id)],
                                side, lv2)]

\* OrderBook::remove_order: unlink the order from its level; delete the level
\* when its queue becomes empty.
BookRemove(book, id) ==
    IF id \notin DOMAIN book.orders
    THEN [err |-> "OrderNotFound", book |-> book]
    ELSE
    LET bo == book.orders[id]
        side == Side(bo.order.type)
        lv == SideLevels(book, side)
        old == lv[bo.order.price]
        level == [size |-> old.size - LiveSize(bo.order),
                  num_orders |-> old.num_orders - LiveCount(bo.order),
                  head |-> IF old.head = id THEN bo.next ELSE old.head,
                  tail |-> IF old.tail = id THEN bo.prev ELSE old.tail]
        o1 == IF bo.prev # NoOrderId
              THEN [book.orders EXCEPT ![bo.prev].next = bo.next]
              ELSE book.orders
        o2 == IF bo.next # NoOrderId
              THEN [o1 EXCEPT ![bo.next].prev = bo.prev]
              ELSE o1
        lv2 == IF level.head = NoOrderId
               THEN MapDel(lv, bo.order.price)
               ELSE MapPut(lv, bo.order.price, level)
    IN [err |-> "",
        book |-> WithSideLevels([book EXCEPT !.orders = MapDel(o2, id)], side, lv2)]

\* OrderBook::update_order(new_order, old_size): price unchanged, the order
\* keeps its place in the queue and the level's aggregates are adjusted.  An
\* order that is not at the price and side the book holds it at is refused.
BookUpdate(book, order, old_size) ==
    IF order.order_id \notin DOMAIN book.orders
    THEN [err |-> "OrderNotFound", book |-> book]
    ELSE
    LET id == order.order_id
        bo == book.orders[id]
        side == Side(bo.order.type)
        lv == SideLevels(book, side)
        old == lv[bo.order.price]
        level == [old EXCEPT
                    !.size = @ - (IF is_expired(bo.order) THEN 0 ELSE old_size)
                               + LiveSize(order),
                    !.num_orders = @ - LiveCount(bo.order) + LiveCount(order)]
    IN IF order.price # bo.order.price \/ Side(order.type) # side
       THEN [err |-> "OrderMismatch", book |-> book]
       ELSE [err |-> "",
             book |-> WithSideLevels([book EXCEPT !.orders[id].order = order], side,
                                     MapPut(lv, bo.order.price, level))]

\* The order ids of a level's queue, head first (OrderBook::level_orders).
RECURSIVE QueueFrom(_, _, _)
QueueFrom(book, id, fuel) ==
    IF id = NoOrderId \/ fuel = 0 \/ id \notin DOMAIN book.orders
    THEN <<>>
    ELSE <<id>> \o QueueFrom(book, book.orders[id].next, fuel - 1)

LevelQueue(book, level) ==
    QueueFrom(book, level.head, Cardinality(DOMAIN book.orders))

\* best_ask / best_bid: the best price whose level has non-expired size, with
\* that size; None if there is none.
\* Mutant: every level of the side counts, also one with expired orders only.
LivePrices_All(lv) == DOMAIN lv

LivePrices(lv) == {p \in DOMAIN lv : lv[p].num_orders > 0 /\ lv[p].size > 0}

best_ask(book) ==
    LET ps == LivePrices(book.asks) IN
    IF ps = {} THEN None
    ELSE LET p == CHOOSE x \in ps : \A y \in ps : x <= y
         IN Some(<<p, book.asks[p].size>>)

best_bid(book) ==
    LET ps == LivePrices(book.bids) IN
    IF ps = {} THEN None
    ELSE LET p == CHOOSE x \in ps : \A y \in ps : x >= y
         IN Some(<<p, book.bids[p].size>>)

\* The spread the view prints (OrderBookView::fmt, spread_panel): nothing
\* unless both sides have a best price; the difference is taken on unsigned
\* decimals, which cannot hold a negative value.
spread_panel(book) ==
    IF best_ask(book) = None \/ best_bid(book) = None THEN None
    ELSE LET ask == best_ask(book)[1][1]
             bid == best_bid(book)[1][1]
         IN IF ask < bid THEN Some("underflow") ELSE Some(ask - bid)

\* The prices of a side in the order the view walks them: asks ascending,
\* bids descending.
RECURSIVE PricesInOrder(_, _)
PricesInOrder(ps, side) ==
    IF ps = {} THEN <<>>
    ELSE LET p == IF side = "Ask" THEN CHOOSE x \in ps : \A y \in ps : x <= y
                  ELSE CHOOSE x \in ps : \A y \in ps : x >= y
         IN <<p>> \o PricesInOrder(ps \ {p}, side)

\* Iterator::take
TakeFirst(seq, n) == SubSeq(seq, 1, IF n < Len(seq) THEN n ELSE Len(seq))

\* The orders the compact view prints for a level (the level_orders closure):
\* the queue without the expired orders unless show_expired, cut to
\* orders_per_level, or to the level's num_orders if that is None.
view_level_orders(book, level, orders_per_level, show_expired) ==
    LET q == LevelQueue(book, level)
        Shown(id) == ~is_expired(book.orders[id].order) \/ show_expired
    IN TakeFirst(SelectSeq(q, Shown), UnwrapOr(orders_per_level, level.num_orders))

\* The rows of one side of the compact view: the levels with num_orders > 0,
\* cut to depth.
view_side_rows(book, side, depth, orders_per_level, show_expired) ==
    LET lv == SideLevels(book, side)
        ps == PricesInOrder({p \in DOMAIN lv : lv[p].num_orders > 0}, side)
        rows == [i \in 1..Len(ps) |->
                    [price |-> ps[i],
                     size |-> lv[ps[i]].size,
                     num_orders |-> lv[ps[i]].num_orders,
                     orders |-> view_level_orders(book, lv[ps[i]], orders_per_level,
                                                  show_expired)]]
    IN TakeFirst(rows, UnwrapOr(depth, Len(ps)))

\* OrderBookView rendered with {:#}: the compact representation.
view_compact(book, depth, orders_per_level, show_expired) ==
    [asks |-> view_side_rows(book, "Ask", depth, orders_per_level, show_expired),
     bids |-> view_side_rows(book, "Bid", depth, orders_per_level, show_expired),
     spread |-> spread_panel(book)]

\* The queued orders of a side, level by level (ask_orders / bid_orders).
RECURSIVE side_orders(_, _, _)
side_orders(book, side, ps) ==
    IF ps = <<>> THEN <<>>
    ELSE LevelQueue(book, SideLevels(book, side)[Head(ps)])
         \o side_orders(book, side, Tail(ps))

\* OrderBookView rendered with {}: the plain table, one row per order of
\* ask_orders and bid_orders; depth, orders_per_level and show_expired are
\* not consulted.
view_plain(book, depth, orders_per_level, show_expired) ==
    [asks |-> side_orders(book, "Ask", PricesInOrder(DOMAIN book.asks, "Ask")),
     bids |-> side_orders(book, "Bid", PricesInOrder(DOMAIN book.bids, "Bid")),
     spread |-> spread_panel(book)]

\* ask_level / bid_level: the level at a price, if the book has one.
ask_level(book, price) ==
    IF price \in DOMAIN book.asks THEN Some(book.asks[price]) ELSE None

bid_level(book, price) ==
    IF price \in DOMAIN book.bids THEN Some(book.bids[price]) ELSE None

\* ------------------------------------------------------------------------
\* Perpetual (src/src/state/perpetual.rs)
\* ------------------------------------------------------------------------
EmptyPerpetual == [orders |-> EmptyMap, book |-> EmptyBook]

\* Perpetual::add_order
add_order(perp, order) ==
    [perp EXCEPT !.book = BookAdd(perp.book, order).book,
                 !.orders = MapPut(perp.orders, order.order_id, order)]

\* Mutant: at an unchanged price the book is given the new size as the old
\* size, so the level's aggregate is left as it was.
update_order_NewAsOld(perp, order) ==
    IF order.order_id \in DOMAIN perp.orders
    THEN LET prev == perp.orders[order.order_id]
             book == IF prev.price # order.price
                     THEN BookAdd(BookRemove(perp.book, prev.order_id).book, order).book
                     ELSE BookUpdate(perp.book, order, order.size).book
         IN [err |-> "",
             perp |-> [perp EXCEPT !.book = book,
                                   !.orders = MapPut(perp.orders, order.order_id, order)]]
    ELSE [err |-> "OrderNotFound", perp |-> perp]

\* Mutant: the order is removed and re-added whether or not its price
\* changed, so it goes to the tail of its level's queue.
update_order_AlwaysReadd(perp, order) ==
    IF order.order_id \in DOMAIN perp.orders
    THEN LET prev == perp.orders[order.order_id]
             book == BookAdd(BookRemove(perp.book, prev.order_id).book, order).book
         IN [err |-> "",
             perp |-> [perp EXCEPT !.book = book,
                                   !.orders = MapPut(perp.orders, order.order_id, order)]]
    ELSE [err |-> "OrderNotFound", perp |-> perp]

\* Mutant: the book is told to update the order in place even when its price
\* changed.
update_order_KeepLevel(perp, order) ==
    IF order.order_id \in DOMAIN perp.orders
    THEN LET prev == perp.orders[order.order_id]
             book == BookUpdate(perp.book, order, prev.size).book
         IN [err |-> "",
             perp |-> [perp EXCEPT !.book = book,
                                   !.orders = MapPut(perp.orders, order.order_id, order)]]
    ELSE [err |-> "OrderNotFound", perp |-> perp]

\* Mutant: an order whose id is vacant is inserted instead of refused.
update_order_Upsert(perp, order) ==
    IF order.order_id \in DOMAIN perp.orders
    THEN LET prev == perp.orders[order.order_id]
             book == IF prev.price # order.price
                     THEN BookAdd(BookRemove(perp.book, prev.order_id).book, order).book
                     ELSE BookUpdate(perp.book, order, prev.size).book
         IN [err |-> "",
             perp |-> [perp EXCEPT !.book = book,
                                   !.orders = MapPut(perp.orders, order.order_id, order)]]
    ELSE [err |-> "",
          perp |-> [perp EXCEPT !.book = BookAdd(perp.book, order).book,
                                !.orders = MapPut(perp.orders, order.order_id, order)]]

\* Perpetual::update_order
update_order(perp, order) ==
    IF order.order_id \in DOMAIN perp.orders
    THEN LET prev == perp.orders[order.order_id]
             book == IF prev.price # order.price
                     THEN BookAdd(BookRemove(perp.book, prev.order_id).book, order).book
                     ELSE BookUpdate(perp.book, order, prev.size).book
         IN [err |-> "",
             perp |-> [perp EXCEPT !.book = book,
                                   !.orders = MapPut(perp.orders, order.order_id, order)]]
    ELSE [err |-> "OrderNotFound", perp |-> perp]

\* Perpetual::remove_order
remove_order(perp, order_id) ==
    IF order_id \in DOMAIN perp.orders
    THEN [err |-> "",
          perp |-> [perp EXCEPT !.book = BookRemove(perp.book, order_id).book,
                                !.orders = MapDel(perp.orders, order_id)]]
    ELSE [err |-> "OrderNotFound", perp |-> perp]

\* DexError::OrderNotFound(perpetual id, order id)
OrderNotFound(perp_id, order_id) ==
    [err |-> "OrderNotFound", perpetual_id |-> perp_id, order_id |-> order_id]

\* update_order and remove_order of the perpetual with the id perp_id: the
\* perpetual afterwards and the returned Result.
update_order_of(perp_id, perp, order) ==
    LET r == update_order(perp, order) IN
    [perp |-> r.perp,
     result |-> IF r.err = "" THEN [err |-> ""]
                ELSE OrderNotFound(perp_id, order.order_id)]

remove_order_of(perp_id, perp, order_id) ==
    LET r == remove_order(perp, order_id) IN
    [perp |-> r.perp,
     result |-> IF r.err = "" THEN [err |-> ""]
                ELSE OrderNotFound(perp_id, order_id)]

\* ------------------------------------------------------------------------
\* Exchange state machine: apply_events (specification, section 4.3)
\* ------------------------------------------------------------------------

\* Raw exchange events, with the OrderRequest context folded into the event
\* that uses it.
OrderPlaced(id, type, price, size, expiry) ==
    [kind |-> "OrderPlaced", order_id |-> id, type |-> type, price |-> price,
     size |-> size, expiry_block |-> expiry]

OrderChanged(id, price, size, expiry) ==
    [kind |-> "OrderChanged", order_id |-> id, type |-> "-", price |-> price,
     size |-> size, expiry_block |-> expiry]

OrderCancelled(id) ==
    [kind |-> "OrderCancelled", order_id |-> id, type |-> "-", price |-> 0,
     size |-> 0, expiry_block |-> 0]

MakerOrderFilled(id, fill) ==
    [kind |-> "MakerOrderFilled", order_id |-> id, type |-> "-", price |-> 0,
     size |-> fill, expiry_block |-> 0]

\* An event that touches no order (price, parameter and account events).
OtherEvent ==
    [kind |-> "Other", order_id |-> NoOrderId, type |-> "-", price |-> 0,
     size |-> 0, expiry_block |-> 0]

RawBlockEvents(n, events) == [instant |-> InstantOf(n), events |-> events]

\* Dispatch of one raw event on the perpetual.  "InvalidInput" marks events
\* the contract cannot emit (a fill larger than the order, an expiry in the
\* past).
HandleEvent(perp, ev, instant) ==
    CASE ev.kind = "OrderPlaced" ->
           IF ev.expiry_block # 0 /\ ev.expiry_block < instant.block_number
           THEN [err |-> "InvalidInput", perp |-> perp]
           ELSE [err |-> "",
                 perp |-> add_order(perp, placed(instant, ev, ev.order_id, ev.size))]
      [] ev.kind = "OrderChanged" ->
           IF ev.expiry_block # 0 /\ ev.expiry_block < instant.block_number
           THEN [err |-> "InvalidInput", perp |-> perp]
           ELSE IF ev.order_id \notin DOMAIN perp.orders
           THEN [err |-> "OrderNotFound", perp |-> perp]
           ELSE update_order(perp,
                    updated(perp.orders[ev.order_id], instant, Some(ev.price),
                            Some(ev.size), None, Some(ev.expiry_block)))
      [] ev.kind = "OrderCancelled" -> remove_order(perp, ev.order_id)
      [] ev.kind = "MakerOrderFilled" ->
           IF ev.order_id \notin DOMAIN perp.orders
           THEN [err |-> "OrderNotFound", perp |-> perp]
           ELSE LET o == perp.orders[ev.order_id] IN
                IF ev.size > o.size
                THEN [err |-> "InvalidInput", perp |-> perp]
                ELSE IF ev.size = o.size
                THEN remove_order(perp, ev.order_id)
                ELSE update_order(perp,
                         updated(o, instant, None, Some(o.size - ev.size), None, None))
      [] OTHER -> [err |-> "", perp |-> perp]

\* Step 3: the events of the block in submission order, up to the first error.
RECURSIVE HandleEvents(_, _, _)
HandleEvents(perp, events, instant) ==
    IF events = <<>>
    THEN [err |-> "", perp |-> perp]
    ELSE LET r == HandleEvent(perp, Head(events), instant) IN
         IF r.err # "" THEN [err |-> r.err, perp |-> perp]
         ELSE HandleEvents(r.perp, Tail(events), instant)

\* Mutant: an order that turns expired is taken out of its queue and queued
\* again at the tail.
ExpireOrder_Requeue(perp, id, instant) ==
    LET u == update_if_expired(perp.orders[id], instant) IN
    IF u.changed
    THEN [perp EXCEPT !.orders[id] = u.order,
                      !.book = BookAdd(BookRemove(perp.book, id).book, u.order).book]
    ELSE perp

\* Step 4 for one order: update_if_expired, and on a transition the order
\* leaves its level's aggregates (it stays queued).
ExpireOrder(perp, id, instant) ==
    LET u == update_if_expired(perp.orders[id], instant) IN
    IF u.changed
    THEN [perp EXCEPT !.orders[id] = u.order,
                      !.book = BookUpdate(perp.book, u.order, perp.orders[id].size).book]
    ELSE perp

\* Step 4: the end-of-block expiry step over all orders of the perpetual.
RECURSIVE ExpireOrders(_, _, _)
ExpireOrders(perp, ids, instant) ==
    IF ids = {} THEN perp
    ELSE LET id == CHOOSE x \in ids : \A y \in ids : x <= y IN
         ExpireOrders(ExpireOrder(perp, id, instant), ids \ {id}, instant)

\* The ids whose order the end-of-block step of `instant` turns expired.
ExpiredBy(perp, instant) ==
    {id \in DOMAIN perp.orders : update_if_expired(perp.orders[id], instant).changed}

\* Mutant: the block number is not checked against the exchange's instant.
apply_events_AnyBlock(ex, block) ==
    LET r == HandleEvents(ex.perp, block.events, block.instant) IN
    IF r.err # ""
    THEN [err |-> r.err, exchange |-> ex, expired |-> {}]
    ELSE [err |-> "",
          exchange |-> [instant |-> block.instant,
                        perp |-> ExpireOrders(r.perp, DOMAIN r.perp.orders,
                                              block.instant)],
          expired |-> ExpiredBy(r.perp, block.instant)]

\* Exchange::apply_events: the result and the exchange afterwards.
apply_events(ex, block) ==
    IF block.instant.block_number # ex.instant.block_number + 1
    THEN [err |-> "BlockOutOfOrder", exchange |-> ex, expired |-> {}]
    ELSE LET r == HandleEvents(ex.perp, block.events, block.instant) IN
         IF r.err # ""
         THEN [err |-> r.err, exchange |-> ex, expired |-> {}]
         ELSE [err |-> "",
               exchange |-> [instant |-> block.instant,
                             perp |-> ExpireOrders(r.perp, DOMAIN r.perp.orders,
                                                   block.instant)],
               expired |-> ExpiredBy(r.perp, block.instant)]

\* The exchange a snapshot at block n of an exchange without orders gives.
FreshExchange(n) == [instant |-> InstantOf(n), perp |-> EmptyPerpetual]

OrderIds == 1..MaxOrderId
Prices == {100, 101}
Sizes == 1..MaxSize
PlacedTypes == {"OpenLong", "OpenShort"}

\* The expiry an order is placed with: order 1 expires with block
\* ExpiryBlock, the other orders never expire.
PlacedExpiry(id) == IF id = 1 THEN ExpiryBlock ELSE 0

\* The expiry a change gives an order: a block later than any block applied.
ChangedExpiry == MaxExBlock + 1

\* The events a block is made of: placements of full-size orders at the
\* lower price on either side, changes to the smallest size at either price,
\* cancellations, and maker fills of any size.
Events ==
    {OrderPlaced(id, t, 100, MaxSize, PlacedExpiry(id)) :
        id \in OrderIds, t \in PlacedTypes}
    \cup {OrderChanged(id, p, 1, ChangedExpiry) : id \in OrderIds, p \in Prices}
    \cup {OrderCancelled(id) : id \in OrderIds}
    \cup {MakerOrderFilled(id, f) : id \in OrderIds, f \in Sizes}

RECURSIVE EventSeqs(_)
EventSeqs(n) ==
    IF n = 0 THEN {<<>>}
    ELSE LET shorter == EventSeqs(n - 1) IN
         shorter \cup {Append(evs, e) : evs \in {x \in shorter : Len(x) = n - 1}, e \in Events}

Blocks == EventSeqs(MaxEvents)

\* The event violates an invariant of the perpetual it is applied to.
EventViolates(perp, ev) ==
    \/ ev.kind = "OrderPlaced" /\ ev.order_id \in DOMAIN perp.orders
    \/ /\ ev.kind \in {"OrderChanged", "OrderCancelled", "MakerOrderFilled"}
       /\ ev.order_id \notin DOMAIN perp.orders

\* Some event of the block violates an invariant when its turn comes.
RECURSIVE BlockViolates(_, _, _)
BlockViolates(perp, events, instant) ==
    IF events = <<>> THEN FALSE
    ELSE \/ EventViolates(perp, Head(events))
         \/ BlockViolates(HandleEvent(perp, Head(events), instant).perp,
                          Tail(events), instant)

\* What an event does to the order it names, as the order is when the event's
\* turn comes: the cases kept as history of a chain-driven run.  An order
\* counts as expired if its expiry block is a block applied before this one.
EventNote(perp, ev, instant) ==
    IF ev.order_id \notin DOMAIN perp.orders THEN {}
    ELSE LET o == perp.orders[ev.order_id]
             expired == o.expiry_block # 0 /\ o.expiry_block < instant.block_number
         IN
         IF ev.kind = "OrderCancelled" /\ expired THEN {"CancelledExpired"}
         ELSE IF ev.kind = "OrderChanged" /\ expired THEN {"ChangedExpired"}
         ELSE IF ev.kind = "MakerOrderFilled" /\ ev.size < o.size THEN {"PartialFill"}
         ELSE IF ev.kind = "MakerOrderFilled" /\ ev.size = o.size THEN {"FullFill"}
         ELSE {}

RECURSIVE EventNotes(_, _, _)
EventNotes(perp, events, instant) ==
    IF events = <<>> THEN {}
    ELSE EventNote(perp, Head(events), instant)
         \cup EventNotes(HandleEvent(perp, Head(events), instant).perp,
                         Tail(events), instant)

\* The block fills the head of a two-order level whole and then the order
\* behind it in part.
HeadFirstNote(perp, events) ==
    IF /\ Len(events) = 2
       /\ events[1].kind = "MakerOrderFilled"
       /\ events[2].kind = "MakerOrderFilled"
       /\ events[1].order_id \in DOMAIN perp.book.orders
       /\ events[2].order_id \in DOMAIN perp.book.orders
       /\ perp.book.orders[events[1].order_id].prev = NoOrderId
       /\ perp.book.orders[events[1].order_id].next = events[2].order_id
       /\ perp.book.orders[events[2].order_id].next = NoOrderId
       /\ events[1].size = perp.orders[events[1].order_id].size
       /\ events[2].size < perp.orders[events[2].order_id].size
    THEN {"HeadFirst"}
    ELSE {}

BlockNotes(perp, events, instant) ==
    EventNotes(perp, events, instant) \cup HeadFirstNote(perp, events)

\* A fresh exchange at block 0; no stream and no consumer are running.
ExchangeInit ==
    /\ exch = FreshExchange(0)
    /\ lastRes = "none"
    /\ notes = {}
    /\ chain = <<>>
    /\ from = 1
    /\ block_num = 1
    /\ spc = "idle"
    /\ blockAns = "pending"
    /\ logsAns = [kind |-> "pending", logs |-> <<>>]
    /\ items = <<>>
    /\ nMisses = 0
    /\ nSleeps = 0
    /\ callMisses = 0
    /\ consumer = "none"
    /\ snapshotAt = 0
    /\ running = FALSE
    /\ handed = <<>>
    /\ processor = [order_context |-> <<>>, pending_maker_fills |-> <<>>,
                    prev_tx_index |-> <<>>]
    /\ tradeItems = <<>>
    /\ panicked = FALSE
    /\ writer = FALSE
    /\ readers = 0
    /\ ipc = "off"
    /\ batch = <<>>
    /\ evIdx = 0
    /\ saved = <<>>
    /\ committed = exch
    /\ replica = <<>>
    /\ contract = <<>>
    /\ cancelled = FALSE
    /\ blocks_left = <<>>
    /\ cmdResult = "none"
    /\ cpc = "off"
    /\ cliItem = <<>>
    /\ num_blocks = <<>>
    /\ exit_code = 0

\* apply_events on the block that follows the exchange's instant.
ApplyNextBlock ==
    /\ exch.instant.block_number < MaxExBlock
    /\ \E evs \in Blocks :
         LET r == apply_events(exch, RawBlockEvents(exch.instant.block_number + 1, evs)) IN
         /\ r.err # "InvalidInput"
         /\ exch' = r.exchange
         /\ lastRes' = (IF r.err = "" THEN "Ok" ELSE r.err)
    /\ UNCHANGED <<streamVars, chainVars, consumerVars>>
    /\ UNCHANGED <<tradeVars, indexerVars>>
    /\ UNCHANGED <<replayVars, cliVars>>

\* apply_events on a duplicate, older or gapped block.
ApplyOtherBlock ==
    /\ \E n \in 0..(MaxExBlock + 1), evs \in {<<>>, <<OrderCancelled(1)>>} :
         /\ n # exch.instant.block_number + 1
         /\ LET r == apply_events(exch, RawBlockEvents(n, evs)) IN
            /\ exch' = r.exchange
            /\ lastRes' = (IF r.err = "" THEN "Ok" ELSE r.err)
    /\ UNCHANGED <<streamVars, chainVars, consumerVars>>
    /\ UNCHANGED <<tradeVars, indexerVars>>
    /\ UNCHANGED <<replayVars, cliVars>>

ExchangeNext ==
    \/ ApplyNextBlock
    \/ ApplyOtherBlock

\* apply_events on the next block of the chain: a block as the contract
\* emits it, in which a placement names a vacant id, a change, cancel or fill
\* an order that is there, and a fill is no larger than its order.
ApplyChainBlock ==
    /\ exch.instant.block_number < MaxExBlock
    /\ \E evs \in Blocks :
         LET instant == InstantOf(exch.instant.block_number + 1)
             r == apply_events(exch, [instant |-> instant, events |-> evs])
         IN /\ ~BlockViolates(exch.perp, evs, instant)
            /\ r.err # "InvalidInput"
            /\ exch' = r.exchange
            /\ lastRes' = (IF r.err = "" THEN "Ok" ELSE r.err)
            /\ notes' = BlockNotes(exch.perp, evs, instant)
    /\ UNCHANGED <<streamVars, consumerVars>>
    /\ UNCHANGED <<tradeVars, indexerVars>>
    /\ UNCHANGED <<replayVars, cliVars>>

\* apply_events on the next block of the chain, with what it returns: the
\* error, and the orders for which the end-of-block step emitted OrderExpired.
ApplyReturning ==
    /\ exch.instant.block_number < MaxExBlock
    /\ \E evs \in Blocks :
         LET instant == InstantOf(exch.instant.block_number + 1)
             r == apply_events(exch, [instant |-> instant, events |-> evs])
         IN /\ ~BlockViolates(exch.perp, evs, instant)
            /\ r.err # "InvalidInput"
            /\ exch' = r.exchange
            /\ lastRes' = [err |-> r.err, expired |-> r.expired]
            /\ notes' = BlockNotes(exch.perp, evs, instant)
    /\ UNCHANGED <<streamVars, consumerVars>>
    /\ UNCHANGED <<tradeVars, indexerVars>>
    /\ UNCHANGED <<replayVars, cliVars>>

ReturningNext == ApplyReturning

\* ------------------------------------------------------------------------
\* The perpetual's order operations called one at a time
\* (src/src/state/perpetual.rs)
\* ------------------------------------------------------------------------
PerpOrderIds == 1..MaxPerpOrderId

\* The request context of a placement without expiry.
PerpContext(type, price) == [type |-> type, price |-> price, expiry_block |-> 0]

\* The order is queued between two others.
InMiddle(book, id) ==
    /\ id \in DOMAIN book.orders
    /\ book.orders[id].prev # NoOrderId
    /\ book.orders[id].next # NoOrderId

\* add_order of an order whose id is vacant.
PerpAddOrder ==
    /\ \E id \in PerpOrderIds \ DOMAIN exch.perp.orders,
          type \in PlacedTypes, price \in Prices, size \in Sizes :
         exch' = [exch EXCEPT !.perp =
                     add_order(exch.perp,
                               placed(exch.instant, PerpContext(type, price), id, size))]
    /\ notes' = {"Added"}
    /\ UNCHANGED <<lastRes, streamVars, consumerVars, tradeVars, indexerVars>>
    /\ UNCHANGED <<replayVars, cliVars>>

\* update_order of an order that is there, to a price and a size.
PerpUpdateOrder ==
    /\ \E id \in DOMAIN exch.perp.orders, price \in Prices, size \in Sizes :
         LET o == exch.perp.orders[id]
             r == update_order(exch.perp,
                               updated(o, exch.instant, Some(price), Some(size), None, None))
         IN /\ exch' = [exch EXCEPT !.perp = r.perp]
            /\ notes' = (IF price = o.price THEN {"UpdatedInPlace"} ELSE {"Repriced"})
                         \cup (IF InMiddle(exch.perp.book, id) THEN {"FromMiddle"} ELSE {})
    /\ UNCHANGED <<lastRes, streamVars, consumerVars, tradeVars, indexerVars>>
    /\ UNCHANGED <<replayVars, cliVars>>

\* remove_order of an order that is there.
PerpRemoveOrder ==
    /\ \E id \in DOMAIN exch.perp.orders :
         exch' = [exch EXCEPT !.perp = remove_order(exch.perp, id).perp]
    /\ notes' = {"Removed"}
    /\ UNCHANGED <<lastRes, streamVars, consumerVars, tradeVars, indexerVars>>
    /\ UNCHANGED <<replayVars, cliVars>>

PerpetualNext ==
    \/ PerpAddOrder
    \/ PerpUpdateOrder
    \/ PerpRemoveOrder

\* ------------------------------------------------------------------------
\* Raw stream (src/src/stream.rs)
\* ------------------------------------------------------------------------

\* A log as the provider returns it: transaction index, log index and whether
\* its payload decodes as an exchange event (here one that is no part of a
\* trade).
Log(tx, li, dec) ==
    [tx_index |-> tx, log_index |-> li, decodes |-> dec, kind |-> "Other"]

\* A log whose payload decodes as the exchange event of the given kind.
ExchangeLog(tx, li, kind) ==
    [tx_index |-> tx, log_index |-> li, decodes |-> TRUE, kind |-> kind]

\* Log lists a block may hold: none, two in order, two out of order, one
\* whose payload does not decode, and the logs of a transaction that trades.
LogLists ==
    { <<>>,
      <<Log(0, 0, TRUE), Log(1, 1, TRUE)>>,
      <<Log(1, 1, TRUE), Log(0, 0, TRUE)>>,
      <<Log(0, 0, FALSE)>>,
      <<ExchangeLog(0, 0, "OrderRequest"), ExchangeLog(0, 1, "MakerOrderFilled"),
        ExchangeLog(0, 2, "TakerOrderFilled")>> }

Pending == [kind |-> "pending", logs |-> <<>>]

\* get_block(BlockId::number(n)): Some(header) only for a produced block; a
\* lagging node may still answer None; the transport may fail.
GetBlockAnswers(n) ==
    {"none", "err"} \cup (IF n <= Len(chain) THEN {"some"} ELSE {})

\* get_logs(filter n..n): the logs of block n when it exists, an empty answer
\* when it does not exist yet, or a transport failure.
GetLogsAnswers(n) ==
    { [kind |-> "err", logs |-> <<>>],
      [kind |-> "logs", logs |-> IF n <= Len(chain) THEN chain[n] ELSE <<>>] }

\* RawEvent::new(tx_hash, tx_index, log_index, decoded data) for one log.
RawEvent(log) ==
    [tx_index |-> log.tx_index, log_index |-> log.log_index, kind |-> log.kind]

\* Mutant: a block without logs is taken for a block that is not there yet.
RawResult_EmptyAsMissing(b, l, n) ==
    IF b = "err" \/ l.kind = "err"
    THEN [kind |-> "Err", block_number |-> n, events |-> <<>>, timestamp |-> 0]
    ELSE IF b = "none" \/ l.logs = <<>>
    THEN [kind |-> "InvalidRequest", block_number |-> n, events |-> <<>>, timestamp |-> 0]
    ELSE IF \E i \in 1..Len(l.logs) : ~l.logs[i].decodes
    THEN [kind |-> "Err", block_number |-> n, events |-> <<>>, timestamp |-> 0]
    ELSE [kind |-> "Ok", block_number |-> n,
          events |-> [i \in 1..Len(l.logs) |-> RawEvent(l.logs[i])],
          timestamp |-> BlockTimestamp(n)]

\* try_join!(get_block, get_logs).map_err(..).and_then(..): the result of one
\* round of the loop.
RawResult(b, l, n) ==
    IF b = "err" \/ l.kind = "err"
    THEN [kind |-> "Err", block_number |-> n, events |-> <<>>, timestamp |-> 0]
    ELSE IF b = "none"
    THEN [kind |-> "InvalidRequest", block_number |-> n, events |-> <<>>, timestamp |-> 0]
    ELSE IF \E i \in 1..Len(l.logs) : ~l.logs[i].decodes
    THEN [kind |-> "Err", block_number |-> n, events |-> <<>>, timestamp |-> 0]
    ELSE [kind |-> "Ok", block_number |-> n,
          events |-> [i \in 1..Len(l.logs) |-> RawEvent(l.logs[i])],
          timestamp |-> BlockTimestamp(n)]

\* try_join! is ready once one request failed or both have answered.
JoinReady(b, l) ==
    \/ b = "err"
    \/ l.kind = "err"
    \/ (b # "pending" /\ l.kind # "pending")

\* Mutant: the position also advances when the round failed.
NextBlockNum_AdvanceOnErr(result, n) == n + 1

\* Mutant: the position never advances.
NextBlockNum_Stay(result, n) == n

\* if result.is_ok() { block_num += 1; ... }
NextBlockNum(result, n) == IF result.kind = "Ok" THEN n + 1 ELSE n

\* Mutant: every error is taken for "not available" and retried.
IsNotAvailable_Always(result) == result.kind # "Ok"

\* Mutant: "not available" is not recognised and surfaces like any error.
IsNotAvailable_Never(result) == FALSE

\* matches!(result, Err(DexError::InvalidRequest(_)))
IsNotAvailable(result) == result.kind = "InvalidRequest"

StreamInit ==
    /\ chain = <<>>
    /\ from \in 1..2
    /\ block_num = from
    /\ spc = "idle"
    /\ blockAns = "pending"
    /\ logsAns = Pending
    /\ items = <<>>
    /\ nMisses = 0
    /\ nSleeps = 0
    /\ callMisses = 0
    /\ exch = FreshExchange(0)
    /\ lastRes = "none"
    /\ notes = {}
    /\ consumer = "none"
    /\ snapshotAt = 0
    /\ running = FALSE
    /\ handed = <<>>
    /\ processor = [order_context |-> <<>>, pending_maker_fills |-> <<>>,
                    prev_tx_index |-> <<>>]
    /\ tradeItems = <<>>
    /\ panicked = FALSE
    /\ writer = FALSE
    /\ readers = 0
    /\ ipc = "off"
    /\ batch = <<>>
    /\ evIdx = 0
    /\ saved = <<>>
    /\ committed = exch
    /\ replica = <<>>
    /\ contract = <<>>
    /\ cancelled = FALSE
    /\ blocks_left = <<>>
    /\ cmdResult = "none"
    /\ cpc = "off"
    /\ cliItem = <<>>
    /\ num_blocks = <<>>
    /\ exit_code = 0

\* The provider's chain produces its next block.
ChainAdvance ==
    /\ Len(chain) < MaxBlock
    /\ \E logs \in LogLists : chain' = Append(chain, logs)
    /\ UNCHANGED <<block_num, spc, blockAns, logsAns, items, nMisses, nSleeps, callMisses, from>>
    /\ UNCHANGED <<exchVars, chainVars, consumerVars>>
    /\ UNCHANGED <<tradeVars, indexerVars>>
    /\ UNCHANGED <<replayVars, cliVars>>

\* The consumer polls the stream: the unfold closure starts and issues both
\* requests.
Poll ==
    /\ spc = "idle"
    /\ Len(items) < MaxItems
    /\ spc' = "join"
    /\ blockAns' = "pending"
    /\ logsAns' = Pending
    /\ callMisses' = 0
    /\ UNCHANGED <<chain, block_num, items, nMisses, nSleeps, from>>
    /\ UNCHANGED <<exchVars, chainVars, consumerVars>>
    /\ UNCHANGED <<tradeVars, indexerVars>>
    /\ UNCHANGED <<replayVars, cliVars>>

AnswerBlock ==
    /\ spc = "join"
    /\ blockAns = "pending"
    /\ ~JoinReady(blockAns, logsAns)
    /\ \E a \in GetBlockAnswers(block_num) : blockAns' = a
    /\ UNCHANGED <<chain, block_num, spc, logsAns, items, nMisses, nSleeps, callMisses, from>>
    /\ UNCHANGED <<exchVars, chainVars, consumerVars>>
    /\ UNCHANGED <<tradeVars, indexerVars>>
    /\ UNCHANGED <<replayVars, cliVars>>

AnswerLogs ==
    /\ spc = "join"
    /\ logsAns.kind = "pending"
    /\ ~JoinReady(blockAns, logsAns)
    /\ \E a \in GetLogsAnswers(block_num) : logsAns' = a
    /\ UNCHANGED <<chain, block_num, spc, blockAns, items, nMisses, nSleeps, callMisses, from>>
    /\ UNCHANGED <<exchVars, chainVars, consumerVars>>
    /\ UNCHANGED <<tradeVars, indexerVars>>
    /\ UNCHANGED <<replayVars, cliVars>>

\* The join completes: the rest of the loop body up to the next suspension
\* (return of an item, or the poll-interval sleep), as far as the raw stream
\* goes.
CompleteRaw ==
    /\ spc = "join"
    /\ JoinReady(blockAns, logsAns)
    /\ LET result == RawResult(blockAns, logsAns, block_num) IN
       IF result.kind = "Ok"
       THEN /\ block_num' = NextBlockNum(result, block_num)
            /\ items' = Append(items, result)
            /\ spc' = "idle"
            /\ UNCHANGED <<nMisses, callMisses>>
       ELSE IF IsNotAvailable(result)
       THEN /\ spc' = "sleep"
            /\ nMisses' = nMisses + 1
            /\ callMisses' = callMisses + 1
            /\ UNCHANGED <<block_num, items>>
       ELSE /\ block_num' = NextBlockNum(result, block_num)
            /\ items' = Append(items, result)
            /\ spc' = "idle"
            /\ UNCHANGED <<nMisses, callMisses>>
    /\ UNCHANGED <<chain, blockAns, logsAns, nSleeps, from>>
    /\ UNCHANGED <<exchVars, chainVars, consumerVars, indexerVars>>
    /\ UNCHANGED <<replayVars, cliVars>>

\* The join completes in a raw stream that is consumed as it is.
Complete ==
    /\ CompleteRaw
    /\ UNCHANGED tradeVars

\* sleep(poll_interval) returns; `continue` issues both requests again.
Wake ==
    /\ spc = "sleep"
    /\ nSleeps < MaxSleeps
    /\ spc' = "join"
    /\ nSleeps' = nSleeps + 1
    /\ blockAns' = "pending"
    /\ logsAns' = Pending
    /\ UNCHANGED <<chain, block_num, items, nMisses, callMisses, from>>
    /\ UNCHANGED <<exchVars, chainVars, consumerVars>>
    /\ UNCHANGED <<tradeVars, indexerVars>>
    /\ UNCHANGED <<replayVars, cliVars>>

StreamNext ==
    \/ ChainAdvance
    \/ Poll
    \/ AnswerBlock
    \/ AnswerLogs
    \/ Complete
    \/ Wake

\* ------------------------------------------------------------------------
\* The raw stream with a provider whose calls do not fail and whose blocks
\* become available: the chain keeps producing blocks whose logs decode, the
\* provider answers every call, and it reports a block missing at most
\* MaxSleeps times
\* ------------------------------------------------------------------------
LiveChainAdvance ==
    /\ ChainAdvance
    /\ \A i \in 1..Len(chain'[Len(chain')]) : chain'[Len(chain')][i].decodes

LiveAnswerBlock ==
    /\ AnswerBlock
    /\ blockAns' # "err"
    /\ blockAns' = "none" => nMisses < MaxSleeps

LiveAnswerLogs ==
    /\ AnswerLogs
    /\ logsAns'.kind # "err"

LiveNext ==
    \/ LiveChainAdvance
    \/ Poll
    \/ LiveAnswerBlock
    \/ LiveAnswerLogs
    \/ Complete
    \/ Wake

\* The consumer keeps polling, the runtime drives the stream's future and
\* its sleep, the provider answers, and the chain grows.
LiveFairness ==
    /\ WF_vars(Poll)
    /\ WF_vars(Complete)
    /\ WF_vars(Wake)
    /\ WF_vars(LiveAnswerBlock)
    /\ WF_vars(LiveAnswerLogs)
    /\ WF_vars(LiveChainAdvance)

\* ------------------------------------------------------------------------
\* Consumers: snapshot, then raw stream into apply_events
\* ------------------------------------------------------------------------
Consumers == {"Indexer::run", "test_snapshot_and_events", "trace", "book", "account"}

\* The `from` argument each consumer passes to stream::raw.
IndexerFrom(instant) == instant
TestFrom(instant) == instant
TraceFrom(instant) == InstantNext(instant)
BookFrom(instant) == InstantNext(instant)
AccountFrom(instant) == InstantNext(instant)

StreamFrom(c, instant) ==
    CASE c = "Indexer::run" -> IndexerFrom(instant)
      [] c = "test_snapshot_and_events" -> TestFrom(instant)
      [] c = "trace" -> TraceFrom(instant)
      [] c = "book" -> BookFrom(instant)
      [] c = "account" -> AccountFrom(instant)

\* The BlockEvents of a yielded Ok item; the logs of this chain decode to
\* events that touch no order.
BlockEventsOf(item) ==
    [instant |-> StateInstant(item.block_number, item.timestamp),
     events |-> [i \in 1..Len(item.events) |-> OtherEvent]]

\* A consumer took a snapshot at block B of a chain that has B blocks and
\* created the raw stream.
HandoffInit ==
    /\ consumer \in Consumers
    /\ snapshotAt \in 1..(MaxBlock - 1)
    /\ chain = [i \in 1..snapshotAt |-> <<>>]
    /\ exch = FreshExchange(snapshotAt)
    /\ lastRes = "none"
    /\ notes = {}
    /\ from = StreamFrom(consumer, exch.instant).block_number
    /\ block_num = from
    /\ spc = "idle"
    /\ blockAns = "pending"
    /\ logsAns = Pending
    /\ items = <<>>
    /\ nMisses = 0
    /\ nSleeps = 0
    /\ callMisses = 0
    /\ running = TRUE
    /\ handed = <<>>
    /\ processor = [order_context |-> <<>>, pending_maker_fills |-> <<>>,
                    prev_tx_index |-> <<>>]
    /\ tradeItems = <<>>
    /\ panicked = FALSE
    /\ writer = FALSE
    /\ readers = 0
    /\ ipc = "off"
    /\ batch = <<>>
    /\ evIdx = 0
    /\ saved = <<>>
    /\ committed = exch
    /\ replica = <<>>
    /\ contract = <<>>
    /\ cancelled = FALSE
    /\ blocks_left = <<>>
    /\ cmdResult = "none"
    /\ cpc = "off"
    /\ cliItem = <<>>
    /\ num_blocks = <<>>
    /\ exit_code = 0

\* `while let Some(batch) = stream.next().await`: the consumer polls once it
\* is done with the previous item.
ConsumerPoll ==
    /\ running
    /\ Len(handed) = Len(items)
    /\ Poll

\* The loop body: an Err item ends the loop (unwrap / `?`); an Ok item is
\* handed to apply_events, whose error ends the loop too.
Consume ==
    /\ running
    /\ spc = "idle"
    /\ Len(handed) < Len(items)
    /\ LET item == items[Len(handed) + 1] IN
       IF item.kind # "Ok"
       THEN /\ running' = FALSE
            /\ UNCHANGED <<exch, lastRes, handed>>
       ELSE LET r == apply_events(exch, BlockEventsOf(item)) IN
            /\ handed' = Append(handed, item.block_number)
            /\ exch' = r.exchange
            /\ lastRes' = (IF r.err = "" THEN "Ok" ELSE r.err)
            /\ running' = (r.err = "")
    /\ UNCHANGED <<streamVars, chainVars, consumer, snapshotAt>>
    /\ UNCHANGED <<tradeVars, indexerVars>>
    /\ UNCHANGED <<replayVars, cliVars>>

HandoffNext ==
    \/ ChainAdvance
    \/ ConsumerPoll
    \/ AnswerBlock
    \/ AnswerLogs
    \/ Complete
    \/ Wake
    \/ Consume

\* ------------------------------------------------------------------------
\* Derived trade stream (src/crates/sdk/src/stream/trade.rs)
\* ------------------------------------------------------------------------

\* The hash of the transaction at an index of a block.
TxHash(n, tx) == <<n, tx>>

\* What a log of the exchange decodes to, as far as the trade processor looks
\* at it: the event kind, the transaction it belongs to, and for a
\* MakerOrderFilled its orderId and whether its perpId is configured, for an
\* OrderRequest whether its type has a side.
Shape(kind, tx, id, known, sided) ==
    [kind |-> kind, tx_index |-> tx, order_id |-> id, perp_known |-> known,
     has_side |-> sided]

TxIndexes == 0..MaxTxIndex

Shapes ==
    {Shape("OrderRequest", tx, 0, TRUE, sided) : tx \in TxIndexes, sided \in BOOLEAN}
    \cup {Shape("OrderBatchCompleted", tx, 0, TRUE, FALSE) : tx \in TxIndexes}
    \cup {Shape("TakerOrderFilled", tx, 0, TRUE, FALSE) : tx \in TxIndexes}
    \cup {Shape("MakerOrderFilled", tx, id, TRUE, FALSE) : tx \in TxIndexes, id \in 0..1}
    \cup {Shape("MakerOrderFilled", tx, 1, FALSE, FALSE) : tx \in TxIndexes}

\* The event lists of a block: up to MaxTradeEvents events with the
\* transaction index never decreasing.
RECURSIVE ShapeSeqs(_)
ShapeSeqs(n) ==
    IF n = 0 THEN {<<>>}
    ELSE LET shorter == ShapeSeqs(n - 1) IN
         shorter \cup
         {Append(q, e) : q \in {x \in shorter : Len(x) = n - 1},
                         e \in Shapes}

Ascending(q) == \A i \in 1..(Len(q) - 1) : q[i].tx_index <= q[i + 1].tx_index

TradeBlocks == {q \in ShapeSeqs(MaxTradeEvents) : Ascending(q)}

\* The price and the lot of a fill event, in the contract's units; a shape
\* that names none stands for a fill of one lot at the price 100.
ShapePricePNS(shape) == IF "pricePNS" \in DOMAIN shape THEN shape.pricePNS ELSE 100

ShapeLotLNS(shape) == IF "lotLNS" \in DOMAIN shape THEN shape.lotLNS ELSE 1

\* RawEvent::new(tx_hash, tx_index, log_index, event) for the i-th log of
\* block n.
RawTradeEvent(n, i, shape) ==
    [kind |-> shape.kind, tx_hash |-> TxHash(n, shape.tx_index),
     tx_index |-> shape.tx_index, log_index |-> i - 1,
     order_id |-> shape.order_id, perp_known |-> shape.perp_known,
     has_side |-> shape.has_side,
     pricePNS |-> ShapePricePNS(shape), lotLNS |-> ShapeLotLNS(shape)]

RawTradeBlock(n, shapes) ==
    [instant |-> InstantOf(n),
     events |-> [i \in 1..Len(shapes) |-> RawTradeEvent(n, i, shapes[i])]]

\* TradeProcessor::new
NewProcessor ==
    [order_context |-> None, pending_maker_fills |-> <<>>, prev_tx_index |-> None]

\* The OrderContext an OrderRequest sets: the request it came from.
OrderContext(ev) == [tx_hash |-> ev.tx_hash, log_index |-> ev.log_index]

\* A UD64 decimal: mantissa / 10^scale.
Decimal(mantissa, scale) == [mantissa |-> mantissa, scale |-> scale]

\* The decimals of the configured perpetual's price and size converters
\* (priceDecimals and lotDecimals of the perpetual's info), chosen small.
PriceDecimals == 1

LotDecimals == 2

\* num::Converter::from_unsigned: the raw amount read with the converter's
\* number of decimals.
from_unsigned(decimals, raw) == Decimal(raw, decimals)

PendingMakerFill(ev) ==
    [tx_hash |-> ev.tx_hash, log_index |-> ev.log_index,
     maker_order_id |-> ev.order_id,
     price |-> from_unsigned(PriceDecimals, ev.pricePNS),
     size |-> from_unsigned(LotDecimals, ev.lotLNS)]

MakerFill(m) ==
    [log_index |-> m.log_index, maker_order_id |-> m.maker_order_id,
     price |-> m.price, size |-> m.size]

\* TradeProcessor::handle_maker_fill: a fill of a configured perpetual is
\* buffered; NonZeroU16::new(orderId).expect(..) panics on order id 0.
handle_maker_fill(tp, ev) ==
    IF ev.perp_known
    THEN IF ev.order_id = 0
         THEN [panic |-> TRUE, tp |-> tp]
         ELSE [panic |-> FALSE,
               tp |-> [tp EXCEPT !.pending_maker_fills = Append(@, PendingMakerFill(ev))]]
    ELSE [panic |-> FALSE, tp |-> tp]

\* Mutant: the buffered fills are not compared with the taker's transaction.
handle_taker_fill_NoHashCheck(tp, ev) ==
    LET makers == tp.pending_maker_fills
        taken == [tp EXCEPT !.pending_maker_fills = <<>>]
    IN IF makers = <<>> THEN [tp |-> taken, trade |-> None]
       ELSE IF tp.order_context = None THEN [tp |-> taken, trade |-> None]
       ELSE [tp |-> taken,
             trade |-> Some([tx_hash |-> ev.tx_hash, tx_index |-> ev.tx_index,
                             log_index |-> ev.log_index,
                             taker |-> tp.order_context[1],
                             maker_fills |-> [i \in 1..Len(makers) |-> MakerFill(makers[i])]])]

\* TradeProcessor::handle_taker_fill
handle_taker_fill(tp, ev) ==
    LET makers == tp.pending_maker_fills
        taken == [tp EXCEPT !.pending_maker_fills = <<>>]
    IN IF makers = <<>> THEN [tp |-> taken, trade |-> None]
       ELSE IF tp.order_context = None THEN [tp |-> taken, trade |-> None]
       ELSE IF ~(\A i \in 1..Len(makers) : makers[i].tx_hash = ev.tx_hash)
       THEN [tp |-> taken, trade |-> None]
       ELSE [tp |-> taken,
             trade |-> Some([tx_hash |-> ev.tx_hash, tx_index |-> ev.tx_index,
                             log_index |-> ev.log_index,
                             taker |-> tp.order_context[1],
                             maker_fills |-> [i \in 1..Len(makers) |-> MakerFill(makers[i])]])]

\* TradeProcessor::process_event
process_event(tp, ev) ==
    CASE ev.kind = "OrderRequest" ->
           [panic |-> FALSE, trade |-> None,
            tp |-> IF ev.has_side
                   THEN [tp EXCEPT !.order_context = Some(OrderContext(ev))]
                   ELSE tp]
      [] ev.kind = "OrderBatchCompleted" ->
           [panic |-> FALSE, trade |-> None,
            tp |-> [tp EXCEPT !.order_context = None, !.pending_maker_fills = <<>>]]
      [] ev.kind = "MakerOrderFilled" ->
           LET r == handle_maker_fill(tp, ev) IN
           [panic |-> r.panic, trade |-> None, tp |-> r.tp]
      [] ev.kind = "TakerOrderFilled" ->
           LET r == handle_taker_fill(tp, ev) IN
           [panic |-> FALSE, trade |-> r.trade, tp |-> r.tp]
      [] OTHER -> [panic |-> FALSE, trade |-> None, tp |-> tp]

\* Mutant: nothing is reset at a transaction boundary.
AtEvent_NoReset(tp, ev) == tp

\* The reset at a transaction boundary, at the head of the loop body of
\* process_block.
AtEvent(tp, ev) ==
    IF tp.prev_tx_index # None /\ tp.prev_tx_index[1] < ev.tx_index
    THEN [tp EXCEPT !.order_context = None, !.pending_maker_fills = <<>>]
    ELSE tp

\* What a TakerOrderFilled found and did: the context and the fills buffered
\* when it came, the trade it emitted if any, and the fills buffered
\* afterwards.
Take(before, ev, r) ==
    [context |-> before.order_context, buffer |-> before.pending_maker_fills,
     taker |-> ev, trade |-> r.trade, left |-> r.tp.pending_maker_fills]

\* The loop of process_block over the events from the i-th on; `takes` is the
\* history of the TakerOrderFilled events handled.
RECURSIVE ProcessFrom(_, _, _, _, _)
ProcessFrom(tp, events, i, trades, takes) ==
    IF i > Len(events)
    THEN [panic |-> FALSE, tp |-> tp, trades |-> trades, takes |-> takes]
    ELSE LET ev == events[i]
             before == AtEvent(tp, ev)
             r == process_event(before, ev)
         IN IF r.panic
            THEN [panic |-> TRUE, tp |-> r.tp, trades |-> trades, takes |-> takes]
            ELSE ProcessFrom([r.tp EXCEPT !.prev_tx_index = Some(ev.tx_index)],
                             events, i + 1, trades \o r.trade,
                             IF ev.kind = "TakerOrderFilled"
                             THEN Append(takes, Take(before, ev, r))
                             ELSE takes)

\* TradeProcessor::process_block: the processor afterwards and the
\* BlockTrades returned, or a panic.
process_block(tp, block) ==
    LET r == ProcessFrom(tp, block.events, 1, <<>>, <<>>) IN
    [panic |-> r.panic, tp |-> r.tp, takes |-> r.takes,
     trades |-> [instant |-> block.instant, events |-> r.trades]]

\* An item of the trade stream.
OkTrades(bt, takes) ==
    [kind |-> "Ok", instant |-> bt.instant, trades |-> bt.events, takes |-> takes]

ErrTrades ==
    [kind |-> "Err", instant |-> StateInstant(0, 0), trades |-> <<>>, takes |-> <<>>]

\* The number of the block the raw stream yields next.
NextRawBlock == Len(SelectSeq(tradeItems, LAMBDA it : it.kind = "Ok")) + 1

\* A trade stream over a raw stream that has yielded nothing yet.
TradeInit ==
    /\ processor = NewProcessor
    /\ tradeItems = <<>>
    /\ panicked = FALSE
    /\ exch = FreshExchange(0)
    /\ lastRes = "none"
    /\ notes = {}
    /\ chain = <<>>
    /\ from = 1
    /\ block_num = 1
    /\ spc = "idle"
    /\ blockAns = "pending"
    /\ logsAns = [kind |-> "pending", logs |-> <<>>]
    /\ items = <<>>
    /\ nMisses = 0
    /\ nSleeps = 0
    /\ callMisses = 0
    /\ consumer = "none"
    /\ snapshotAt = 0
    /\ running = FALSE
    /\ handed = <<>>
    /\ writer = FALSE
    /\ readers = 0
    /\ ipc = "off"
    /\ batch = <<>>
    /\ evIdx = 0
    /\ saved = <<>>
    /\ committed = exch
    /\ replica = <<>>
    /\ contract = <<>>
    /\ cancelled = FALSE
    /\ blocks_left = <<>>
    /\ cmdResult = "none"
    /\ cpc = "off"
    /\ cliItem = <<>>
    /\ num_blocks = <<>>
    /\ exit_code = 0

\* raw_events.map(..) on an Ok item: process_block on the block.
ProcessBlock ==
    /\ ~panicked
    /\ Len(tradeItems) < MaxTradeBlocks
    /\ \E shapes \in TradeBlocks :
         LET r == process_block(processor, RawTradeBlock(NextRawBlock, shapes)) IN
         /\ processor' = r.tp
         /\ panicked' = r.panic
         /\ tradeItems' = IF r.panic THEN tradeItems
                          ELSE Append(tradeItems, OkTrades(r.trades, r.takes))
    /\ UNCHANGED <<streamVars, exchVars, chainVars, consumerVars, indexerVars>>
    /\ UNCHANGED <<replayVars, cliVars>>

\* raw_events.map(..) on an Err item: the error is passed on.
PassError ==
    /\ ~panicked
    /\ Len(tradeItems) < MaxTradeBlocks
    /\ tradeItems' = Append(tradeItems, ErrTrades)
    /\ UNCHANGED <<processor, panicked>>
    /\ UNCHANGED <<streamVars, exchVars, chainVars, consumerVars, indexerVars>>
    /\ UNCHANGED <<replayVars, cliVars>>

TradeNext ==
    \/ ProcessBlock
    \/ PassError

\* The events of the transactions of an order batch, as far as the trade
\* processor looks at them: requests of a type with a side (OpenLong,
\* OpenShort, CloseLong, CloseShort) and without one, fills of a configured
\* perpetual with a valid order id, and the end of the batch.
RequestShapes ==
    {Shape("OrderRequest", tx, 0, TRUE, sided) : tx \in TxIndexes, sided \in BOOLEAN}
    \cup {Shape("OrderBatchCompleted", tx, 0, TRUE, FALSE) : tx \in TxIndexes}
    \cup {Shape("TakerOrderFilled", tx, 0, TRUE, FALSE) : tx \in TxIndexes}
    \cup {Shape("MakerOrderFilled", tx, 1, TRUE, FALSE) : tx \in TxIndexes}

RECURSIVE RequestSeqs(_)
RequestSeqs(n) ==
    IF n = 0 THEN {<<>>}
    ELSE LET shorter == RequestSeqs(n - 1) IN
         shorter \cup
         UNION {{Append(q, e) : e \in {x \in RequestShapes :
                                         \A i \in 1..Len(q) : q[i].tx_index <= x.tx_index}} :
                q \in {x \in shorter : Len(x) = n - 1}}

RequestBlocks == RequestSeqs(MaxRequestEvents)

\* raw_events.map(..) on an Ok item whose block is kept as the chain holds
\* it: process_block on the block.
ProcessRequestBlock ==
    /\ ~panicked
    /\ Len(chain) < MaxRequestBlocks
    /\ \E shapes \in RequestBlocks :
         LET block == RawTradeBlock(NextRawBlock, shapes)
             r == process_block(processor, block)
         IN /\ processor' = r.tp
            /\ panicked' = r.panic
            /\ chain' = Append(chain, block.events)
            /\ tradeItems' = IF r.panic THEN tradeItems
                             ELSE Append(tradeItems, OkTrades(r.trades, r.takes))
    /\ UNCHANGED <<block_num, spc, blockAns, logsAns, items, nMisses, nSleeps, callMisses, from>>
    /\ UNCHANGED <<exchVars, chainVars, consumerVars, indexerVars>>
    /\ UNCHANGED <<replayVars, cliVars>>

RequestsNext == ProcessRequestBlock

\* The events of a block of one transaction whose fills name a price and a
\* lot: a request, maker fills of 0..MaxLot lots at either price, and the
\* taker's fill.
FillShapes ==
    {Shape("OrderRequest", 0, 0, TRUE, TRUE), Shape("TakerOrderFilled", 0, 0, TRUE, FALSE)}
    \cup {[kind |-> "MakerOrderFilled", tx_index |-> 0, order_id |-> 1,
           perp_known |-> TRUE, has_side |-> FALSE, pricePNS |-> p, lotLNS |-> l] :
            p \in {100, 101}, l \in 0..MaxLot}

RECURSIVE FillSeqs(_)
FillSeqs(n) ==
    IF n = 0 THEN {<<>>}
    ELSE LET shorter == FillSeqs(n - 1) IN
         shorter \cup
         {Append(q, e) : q \in {x \in shorter : Len(x) = n - 1}, e \in FillShapes}

FillBlocks == FillSeqs(MaxFillEvents)

RECURSIVE SeqSum(_)
SeqSum(q) == IF q = <<>> THEN 0 ELSE Head(q) + SeqSum(Tail(q))

\* Trade::total_size
total_size(trade) ==
    Decimal(SeqSum([i \in 1..Len(trade.maker_fills) |->
                       trade.maker_fills[i].size.mantissa]),
            LotDecimals)

\* The sum of price * size over the maker fills.
total_value(trade) ==
    Decimal(SeqSum([i \in 1..Len(trade.maker_fills) |->
                       trade.maker_fills[i].price.mantissa
                       * trade.maker_fills[i].size.mantissa]),
            PriceDecimals + LotDecimals)

\* a / b as the exact quotient of the two decimals.
DecimalDiv(a, b) ==
    [num |-> a.mantissa, den |-> b.mantissa, scale |-> a.scale - b.scale]

\* Trade::avg_price
avg_price(trade) ==
    IF trade.maker_fills = <<>> THEN None
    ELSE IF total_size(trade).mantissa = 0 THEN None
    ELSE Some(DecimalDiv(total_value(trade), total_size(trade)))

\* raw_events.map(..) on an Ok item whose fills name prices and lots:
\* process_block on the block.
ProcessFillBlock ==
    /\ ~panicked
    /\ Len(chain) < MaxFillBlocks
    /\ \E shapes \in FillBlocks :
         LET block == RawTradeBlock(NextRawBlock, shapes)
             r == process_block(processor, block)
         IN /\ processor' = r.tp
            /\ panicked' = r.panic
            /\ chain' = Append(chain, block.events)
            /\ tradeItems' = IF r.panic THEN tradeItems
                             ELSE Append(tradeItems, OkTrades(r.trades, r.takes))
    /\ UNCHANGED <<block_num, spc, blockAns, logsAns, items, nMisses, nSleeps, callMisses, from>>
    /\ UNCHANGED <<exchVars, chainVars, consumerVars, indexerVars>>
    /\ UNCHANGED <<replayVars, cliVars>>

FillsNext == ProcessFillBlock

\* The raw event of a yielded block as the trade processor reads it; the
\* orders and perpetuals of this chain are valid and configured.
TradeEventOf(n, e) ==
    [kind |-> e.kind, tx_hash |-> TxHash(n, e.tx_index), tx_index |-> e.tx_index,
     log_index |-> e.log_index, order_id |-> 1, perp_known |-> TRUE,
     has_side |-> TRUE, pricePNS |-> 100, lotLNS |-> 1]

\* The RawBlockEvents of a yielded Ok item.
TradeBlockOf(item) ==
    [instant |-> StateInstant(item.block_number, item.timestamp),
     events |-> [i \in 1..Len(item.events) |->
                    TradeEventOf(item.block_number, item.events[i])]]

\* The join completes in a raw stream that trade() maps: an item of the raw
\* stream becomes an item of the trade stream in the same poll.
TradeComplete ==
    /\ ~panicked
    /\ CompleteRaw
    /\ LET result == RawResult(blockAns, logsAns, block_num) IN
       IF result.kind = "Ok"
       THEN LET r == process_block(processor, TradeBlockOf(result)) IN
            /\ processor' = r.tp
            /\ panicked' = r.panic
            /\ tradeItems' = IF r.panic THEN tradeItems
                             ELSE Append(tradeItems, OkTrades(r.trades, r.takes))
       ELSE IF IsNotAvailable(result)
       THEN UNCHANGED tradeVars
       ELSE /\ tradeItems' = Append(tradeItems, ErrTrades)
            /\ UNCHANGED <<processor, panicked>>

TradeStreamNext ==
    \/ ChainAdvance
    \/ Poll
    \/ AnswerBlock
    \/ AnswerLogs
    \/ TradeComplete
    \/ Wake

\* ------------------------------------------------------------------------
\* Indexed state: Indexer::run writes the shared exchange, IndexedState
\* readers look at it (src/crates/sdk/src/testing/indexer.rs)
\* ------------------------------------------------------------------------

\* Mutant: a read guard is handed out while the write guard is alive.
CanRead_Always(w) == TRUE

\* RwLock::read succeeds when no write guard is alive.
CanRead(w) == ~w

\* RwLock::write succeeds when no guard is alive.
CanWrite(w, r) == ~w /\ r = 0

\* The events of the batches the indexer is handed.
IndexerEvents ==
    {OrderPlaced(1, "OpenShort", 100, MaxSize, PlacedExpiry(1)),
     OrderPlaced(2, "OpenLong", 100, MaxSize, PlacedExpiry(2)),
     OrderCancelled(1),
     MakerOrderFilled(2, 1)}

IndexerBlocks ==
    {<<>>} \cup {<<e>> : e \in IndexerEvents}
           \cup {<<e, f>> : e \in IndexerEvents, f \in IndexerEvents}

\* Indexer::new has built the snapshot at block snapshotAt; run has not
\* begun.
IndexerInit ==
    /\ consumer = "Indexer::run"
    /\ snapshotAt = 1
    /\ exch = FreshExchange(snapshotAt)
    /\ committed = exch
    /\ lastRes = "none"
    /\ writer = FALSE
    /\ readers = 0
    /\ ipc = "start"
    /\ batch = None
    /\ evIdx = 0
    /\ saved = None
    /\ running = TRUE
    /\ handed = <<>>
    /\ notes = {}
    /\ chain = <<>>
    /\ from = snapshotAt
    /\ block_num = snapshotAt
    /\ spc = "idle"
    /\ blockAns = "pending"
    /\ logsAns = [kind |-> "pending", logs |-> <<>>]
    /\ items = <<>>
    /\ nMisses = 0
    /\ nSleeps = 0
    /\ callMisses = 0
    /\ processor = [order_context |-> <<>>, pending_maker_fills |-> <<>>,
                    prev_tx_index |-> <<>>]
    /\ tradeItems = <<>>
    /\ panicked = FALSE
    /\ replica = <<>>
    /\ contract = <<>>
    /\ cancelled = FALSE
    /\ blocks_left = <<>>
    /\ cmdResult = "none"
    /\ cpc = "off"
    /\ cliItem = <<>>
    /\ num_blocks = <<>>
    /\ exit_code = 0

\* run: stream::raw(.., self.snapshot.read().unwrap().instant(), ..); the
\* read guard lives for this statement only.
IndexerStart ==
    /\ ipc = "start"
    /\ CanRead(writer)
    /\ from' = IndexerFrom(exch.instant).block_number
    /\ block_num' = from'
    /\ ipc' = "next"
    /\ UNCHANGED <<chain, spc, blockAns, logsAns, items, nMisses, nSleeps, callMisses>>
    /\ UNCHANGED <<exchVars, chainVars, consumerVars, tradeVars>>
    /\ UNCHANGED <<writer, readers, batch, evIdx, saved, committed>>
    /\ UNCHANGED <<replayVars, cliVars>>

\* stream.next().await returns a batch: the block of the exchange's own
\* number or of the next, with its events.
IndexerNext ==
    /\ ipc = "next"
    /\ exch.instant.block_number < MaxExBlock
    /\ \E n \in {exch.instant.block_number, exch.instant.block_number + 1},
          evs \in IndexerBlocks :
         batch' = Some(RawBlockEvents(n, evs))
    /\ ipc' = "lock"
    /\ UNCHANGED <<streamVars, exchVars, chainVars, consumerVars, tradeVars>>
    /\ UNCHANGED <<writer, readers, evIdx, saved, committed>>
    /\ UNCHANGED <<replayVars, cliVars>>

\* stream.next().await returns an Err item: batch.unwrap() ends run.
IndexerStreamError ==
    /\ ipc = "next"
    /\ ipc' = "done"
    /\ running' = FALSE
    /\ UNCHANGED <<streamVars, exchVars, chainVars, tradeVars>>
    /\ UNCHANGED <<consumer, snapshotAt, handed>>
    /\ UNCHANGED <<writer, readers, batch, evIdx, saved, committed>>
    /\ UNCHANGED <<replayVars, cliVars>>

\* self.snapshot.write().unwrap(): the write guard is taken and apply_events
\* begins.
IndexerLock ==
    /\ ipc = "lock"
    /\ CanWrite(writer, readers)
    /\ writer' = TRUE
    /\ ipc' = "apply"
    /\ evIdx' = 0
    /\ saved' = Some(exch)
    /\ handed' = Append(handed, batch[1].instant.block_number)
    /\ UNCHANGED <<streamVars, exchVars, chainVars, tradeVars>>
    /\ UNCHANGED <<consumer, snapshotAt, running>>
    /\ UNCHANGED <<readers, batch, committed>>
    /\ UNCHANGED <<replayVars, cliVars>>

\* The block number is the one apply_events accepts.
BatchInOrder ==
    batch[1].instant.block_number = saved[1].instant.block_number + 1

\* The result of the event apply_events handles next.
NextEventResult ==
    HandleEvent(exch.perp, batch[1].events[evIdx + 1], batch[1].instant)

\* apply_events, step 3: the next event of the batch is applied to the
\* exchange in place.
IndexerApplyEvent ==
    /\ ipc = "apply"
    /\ BatchInOrder
    /\ evIdx < Len(batch[1].events)
    /\ NextEventResult.err = ""
    /\ exch' = [exch EXCEPT !.perp = NextEventResult.perp]
    /\ evIdx' = evIdx + 1
    /\ UNCHANGED <<lastRes, streamVars, chainVars, consumerVars, tradeVars>>
    /\ UNCHANGED <<writer, readers, ipc, batch, saved, committed>>
    /\ UNCHANGED <<replayVars, cliVars>>

\* apply_events returns an error: the exchange is put back as it was when
\* the call began, and the write guard is dropped with the statement.
IndexerReject ==
    /\ ipc = "apply"
    /\ \/ ~BatchInOrder
       \/ (evIdx < Len(batch[1].events) /\ NextEventResult.err # "")
    /\ exch' = saved[1]
    /\ lastRes' = (IF ~BatchInOrder THEN "BlockOutOfOrder" ELSE NextEventResult.err)
    /\ writer' = FALSE
    /\ ipc' = "send"
    /\ evIdx' = 0
    /\ saved' = None
    /\ UNCHANGED <<streamVars, chainVars, consumerVars, tradeVars>>
    /\ UNCHANGED <<readers, batch, committed>>
    /\ UNCHANGED <<replayVars, cliVars>>

\* apply_events, steps 4 and 5, returns Ok: the end-of-block expiry step,
\* the new instant, and the write guard is dropped with the statement.
IndexerCommit ==
    /\ ipc = "apply"
    /\ BatchInOrder
    /\ evIdx = Len(batch[1].events)
    /\ exch' = [instant |-> batch[1].instant,
                perp |-> ExpireOrders(exch.perp, DOMAIN exch.perp.orders,
                                      batch[1].instant)]
    /\ committed' = exch'
    /\ lastRes' = "Ok"
    /\ writer' = FALSE
    /\ ipc' = "send"
    /\ evIdx' = 0
    /\ saved' = None
    /\ UNCHANGED <<streamVars, chainVars, consumerVars, tradeVars>>
    /\ UNCHANGED <<readers, batch>>
    /\ UNCHANGED <<replayVars, cliVars>>

\* raw_events_tx.send(batch).await and, for Ok(Some(..)), the send of the
\* state events; an error of apply_events ends the loop.
IndexerSend ==
    /\ ipc = "send"
    /\ batch' = None
    /\ ipc' = (IF lastRes = "Ok" THEN "next" ELSE "done")
    /\ running' = (lastRes = "Ok")
    /\ UNCHANGED <<streamVars, exchVars, chainVars, tradeVars>>
    /\ UNCHANGED <<consumer, snapshotAt, handed>>
    /\ UNCHANGED <<writer, readers, evIdx, saved, committed>>
    /\ UNCHANGED <<replayVars, cliVars>>

\* IndexedState::snapshot: a reader takes a read guard.
SnapshotRead ==
    /\ readers < MaxReaders
    /\ CanRead(writer)
    /\ readers' = readers + 1
    /\ UNCHANGED <<streamVars, exchVars, chainVars, consumerVars, tradeVars>>
    /\ UNCHANGED <<writer, ipc, batch, evIdx, saved, committed>>
    /\ UNCHANGED <<replayVars, cliVars>>

\* The reader drops its read guard.
SnapshotDrop ==
    /\ readers > 0
    /\ readers' = readers - 1
    /\ UNCHANGED <<streamVars, exchVars, chainVars, consumerVars, tradeVars>>
    /\ UNCHANGED <<writer, ipc, batch, evIdx, saved, committed>>
    /\ UNCHANGED <<replayVars, cliVars>>

IndexerStep ==
    \/ IndexerStart
    \/ IndexerNext
    \/ IndexerStreamError
    \/ IndexerLock
    \/ IndexerApplyEvent
    \/ IndexerReject
    \/ IndexerCommit
    \/ IndexerSend
    \/ SnapshotRead
    \/ SnapshotDrop

\* ------------------------------------------------------------------------
\* The exchange contract as the snapshot builder and the stream see it: the
\* stored orders with their queues, and the events a block of requests
\* emits (specification, sections 4.3, 4.4 and 6.2)
\* ------------------------------------------------------------------------
ContractOrderIds == 1..MaxOrderId

\* The expiry blocks a request may carry: none, or the block
\* ReplayExpiryBlock.
ContractExpiries == {0, ReplayExpiryBlock}

\* The storage of a contract without orders, before its first block.
EmptyContract == [block |-> 0, orders |-> EmptyMap, queues |-> EmptyMap]

\* The queue an order of a type and price waits in.
LevelKey(type, price) == <<Side(type), price>>

\* The contract matches an order up to and including its expiry block.
ContractLive(o, n) == o.expiryBlock = 0 \/ o.expiryBlock >= n

ContractQueue(c, key) == IF key \in DOMAIN c.queues THEN c.queues[key] ELSE <<>>

\* The queue without an order id.
RECURSIVE QueueWithout(_, _)
QueueWithout(q, id) ==
    IF q = <<>> THEN <<>>
    ELSE IF Head(q) = id THEN QueueWithout(Tail(q), id)
    ELSE <<Head(q)>> \o QueueWithout(Tail(q), id)

Enqueue(c, key, id) ==
    [c EXCEPT !.queues = MapPut(c.queues, key, Append(ContractQueue(c, key), id))]

Dequeue(c, key, id) ==
    LET q == QueueWithout(ContractQueue(c, key), id) IN
    [c EXCEPT !.queues = IF q = <<>> THEN MapDel(c.queues, key)
                         ELSE MapPut(c.queues, key, q)]

\* An order of this type at this price would match a live order of the other
\* side (other than the order `except`), so the contract does not let it rest.
Crosses(c, type, price, except) ==
    \E id \in DOMAIN c.orders \ {except} :
        LET o == c.orders[id] IN
        /\ ContractLive(o, c.block)
        /\ Side(o.orderType) # Side(type)
        /\ IF Side(type) = "Bid" THEN o.price <= price ELSE o.price >= price

\* The live orders of a side, and the best price among them.
ContractLiveIds(c, side) ==
    {id \in DOMAIN c.orders :
        Side(c.orders[id].orderType) = side /\ ContractLive(c.orders[id], c.block)}

\* The maker a taker of the other side matches first: the first live order of
\* the queue at the best live price.
FirstMaker(c, side) ==
    LET ids == ContractLiveIds(c, side)
        ps == {c.orders[id].price : id \in ids}
        p == IF side = "Ask" THEN CHOOSE x \in ps : \A y \in ps : x <= y
             ELSE CHOOSE x \in ps : \A y \in ps : x >= y
        q == ContractQueue(c, <<side, p>>)
        i == CHOOSE k \in 1..Len(q) :
                 /\ q[k] \in ids
                 /\ \A j \in 1..(k - 1) : q[j] \notin ids
    IN IF ids = {} THEN NoOrderId ELSE q[i]

\* The contract, executing its block c.block, can emit the event.
Emits(c, ev) ==
    CASE ev.kind = "OrderPlaced" ->
           /\ ev.order_id \notin DOMAIN c.orders
           /\ (ev.expiry_block = 0 \/ ev.expiry_block >= c.block)
           /\ ~Crosses(c, ev.type, ev.price, NoOrderId)
      [] ev.kind = "OrderChanged" ->
           /\ ev.order_id \in DOMAIN c.orders
           /\ (ev.expiry_block = 0 \/ ev.expiry_block >= c.block)
           /\ ~Crosses(c, c.orders[ev.order_id].orderType, ev.price, ev.order_id)
      [] ev.kind = "OrderCancelled" -> ev.order_id \in DOMAIN c.orders
      [] ev.kind = "MakerOrderFilled" ->
           /\ ev.order_id \in DOMAIN c.orders
           /\ ev.order_id = FirstMaker(c, Side(c.orders[ev.order_id].orderType))
           /\ ev.size <= c.orders[ev.order_id].size
      [] OTHER -> TRUE

\* The storage after the contract has emitted the event.
Execute(c, ev) ==
    CASE ev.kind = "OrderPlaced" ->
           Enqueue([c EXCEPT !.orders = MapPut(c.orders, ev.order_id,
                       [orderId |-> ev.order_id, orderType |-> ev.type,
                        price |-> ev.price, size |-> ev.size,
                        expiryBlock |-> ev.expiry_block])],
                   LevelKey(ev.type, ev.price), ev.order_id)
      [] ev.kind = "OrderChanged" ->
           LET o == c.orders[ev.order_id]
               n == [o EXCEPT !.price = ev.price, !.size = ev.size,
                              !.expiryBlock = ev.expiry_block]
               c1 == [c EXCEPT !.orders[ev.order_id] = n]
           IN IF ev.price = o.price THEN c1
              ELSE Enqueue(Dequeue(c1, LevelKey(o.orderType, o.price), ev.order_id),
                           LevelKey(o.orderType, ev.price), ev.order_id)
      [] ev.kind = "OrderCancelled" ->
           LET o == c.orders[ev.order_id] IN
           Dequeue([c EXCEPT !.orders = MapDel(c.orders, ev.order_id)],
                   LevelKey(o.orderType, o.price), ev.order_id)
      [] ev.kind = "MakerOrderFilled" ->
           LET o == c.orders[ev.order_id] IN
           IF ev.size = o.size
           THEN Dequeue([c EXCEPT !.orders = MapDel(c.orders, ev.order_id)],
                        LevelKey(o.orderType, o.price), ev.order_id)
           ELSE [c EXCEPT !.orders[ev.order_id].size = o.size - ev.size]
      [] OTHER -> c

\* The events of one block, executed in order: whether the contract can emit
\* them, and its storage afterwards.
RECURSIVE ExecuteAll(_, _)
ExecuteAll(c, evs) ==
    IF evs = <<>> THEN [ok |-> TRUE, contract |-> c]
    ELSE IF ~Emits(c, Head(evs)) THEN [ok |-> FALSE, contract |-> c]
    ELSE ExecuteAll(Execute(c, Head(evs)), Tail(evs))

\* The events a block is made of.
ContractEvents ==
    {OrderPlaced(id, t, p, MaxSize, x) :
        id \in ContractOrderIds, t \in PlacedTypes, p \in Prices, x \in ContractExpiries}
    \cup {OrderChanged(id, p, s, 0) :
        id \in ContractOrderIds, p \in Prices, s \in Sizes}
    \cup {OrderCancelled(id) : id \in ContractOrderIds}
    \cup {MakerOrderFilled(id, f) : id \in ContractOrderIds, f \in Sizes}

RECURSIVE ContractSeqs(_)
ContractSeqs(n) ==
    IF n = 0 THEN {<<>>}
    ELSE LET shorter == ContractSeqs(n - 1) IN
         shorter \cup {Append(evs, e) :
                          evs \in {x \in shorter : Len(x) = n - 1}, e \in ContractEvents}

ContractBlocks == ContractSeqs(MaxRequests)

\* The contract executes its next block.
ExecuteBlock(c, evs) == ExecuteAll([c EXCEPT !.block = c.block + 1], evs)

\* ------------------------------------------------------------------------
\* Snapshot builder: the exchange read from the contract's storage at a
\* block (specification, sections 4.2 and 4.4; Order::from_snapshot)
\* ------------------------------------------------------------------------

\* An order id that names no stored order.
AbsentId == MaxPerpOrderId + 1

\* The position of an order in its queue.
QueueIndex(q, id) == CHOOSE k \in 1..Len(q) : q[k] = id

\* The prev/next pointers the contract stores with an order: 0 is no link.
StoredLinks(c, id) ==
    LET o == c.orders[id]
        q == ContractQueue(c, LevelKey(o.orderType, o.price))
        k == QueueIndex(q, id)
    IN [prev |-> IF k = 1 THEN NoOrderId ELSE q[k - 1],
        next |-> IF k = Len(q) THEN NoOrderId ELSE q[k + 1]]

\* The pointers of all stored orders.
AllStoredLinks(c) == [id \in DOMAIN c.orders |-> StoredLinks(c, id)]

\* Pointers as a snapshot may deliver them: the stored ones, or with some of
\* them naming an order that is not part of the snapshot.
LinkChoices(c, id) ==
    {[prev |-> p, next |-> n] :
        p \in {StoredLinks(c, id).prev, AbsentId},
        n \in {StoredLinks(c, id).next, AbsentId}}

RECURSIVE DeliveredLinksOf(_, _)
DeliveredLinksOf(c, ids) ==
    IF ids = {} THEN {EmptyMap}
    ELSE LET id == CHOOSE x \in ids : \A y \in ids : x <= y IN
         {MapPut(l, id, ch) :
             l \in DeliveredLinksOf(c, ids \ {id}), ch \in LinkChoices(c, id)}

DeliveredLinks(c) == DeliveredLinksOf(c, DOMAIN c.orders)

\* The order entry of the contract's getOrders answer.
SnapshotEntry(c, links, id) ==
    [orderId |-> id,
     orderType |-> c.orders[id].orderType,
     price |-> c.orders[id].price,
     size |-> c.orders[id].size,
     expiryBlock |-> c.orders[id].expiryBlock,
     prevOrderId |-> links[id].prev,
     nextOrderId |-> links[id].next]

\* Link repair: a pointer to an id that is not among the level's orders is
\* no link.
Repaired(link, members) == IF link \in members THEN link ELSE NoOrderId

\* The queue of one level: chains are followed along the next pointers from
\* the orders without a (repaired) prev pointer; where the pointers give
\* nothing, the iteration order decides.
RECURSIVE ChainLevel(_, _, _, _)
ChainLevel(entries, members, left, cur) ==
    IF left = {} THEN <<>>
    ELSE IF cur \in left
    THEN <<cur>> \o ChainLevel(entries, members, left \ {cur},
                               Repaired(entries[cur].nextOrderId, members))
    ELSE LET heads == {m \in left : Repaired(entries[m].prevOrderId, members) = NoOrderId}
             from_ids == IF heads = {} THEN left ELSE heads
             start == CHOOSE x \in from_ids : \A y \in from_ids : x <= y
         IN ChainLevel(entries, members, left, start)

\* The ids of the snapshot's orders, level by level, each level in the order
\* of its queue.
RECURSIVE ChainLevels(_, _)
ChainLevels(entries, left) ==
    IF left = {} THEN <<>>
    ELSE LET first == CHOOSE x \in left : \A y \in left : x <= y
             members == {m \in left :
                            /\ Side(entries[m].orderType) = Side(entries[first].orderType)
                            /\ entries[m].price = entries[first].price}
         IN ChainLevel(entries, members, members, NoOrderId)
            \o ChainLevels(entries, left \ members)

\* The orders of the entries queued into a book one after the other.
RECURSIVE QueueAll(_, _, _, _)
QueueAll(perp, instant, entries, ids) ==
    IF ids = <<>> THEN perp
    ELSE QueueAll(add_order(perp, from_snapshot(instant, entries[Head(ids)]).order[1]),
                  instant, entries, Tail(ids))

\* SnapshotBuilder::build at the contract's block, given the pointers the
\* contract delivered.
BuildSnapshot(c, links) ==
    LET entries == [id \in DOMAIN c.orders |-> SnapshotEntry(c, links, id)]
        instant == InstantOf(c.block)
    IN [instant |-> instant,
        perp |-> QueueAll(EmptyPerpetual, instant, entries,
                          ChainLevels(entries, DOMAIN c.orders))]

\* ------------------------------------------------------------------------
\* Replay: a snapshot taken at some block of the contract, and two exchanges
\* built from it that apply the blocks the contract executes afterwards
\* (src/tests/events.rs; apply_events after the specification, section 4.3)
\* ------------------------------------------------------------------------

\* The orders in which the end-of-block step may come across the orders of
\* the perpetual's hash map.
Traversals ==
    {t \in [1..MaxOrderId -> 1..MaxOrderId] :
        \A i, j \in 1..MaxOrderId : i # j => t[i] # t[j]}

\* Step 4, the orders taken in the order of a traversal.
RECURSIVE ExpireOrdersIn(_, _, _)
ExpireOrdersIn(perp, ids, instant) ==
    IF ids = <<>> THEN perp
    ELSE ExpireOrdersIn(IF Head(ids) \in DOMAIN perp.orders
                        THEN ExpireOrder(perp, Head(ids), instant)
                        ELSE perp,
                        Tail(ids), instant)

\* The state event an event of step 3 is answered with.
StateEventOf(ev) == [kind |-> ev.kind, order_id |-> ev.order_id]

\* What apply_events returns for a block: the error, or the state events of
\* the block's events in their order and the orders reported expired.
Returned(err, block, expired) ==
    IF err # "" THEN [err |-> err, events |-> <<>>, expired |-> {}]
    ELSE [err |-> "",
          events |-> [i \in 1..Len(block.events) |-> StateEventOf(block.events[i])],
          expired |-> expired]

\* Exchange::apply_events with the traversal of step 4 made explicit: the
\* exchange afterwards and the returned value.
apply_events_in(ex, block, traversal) ==
    IF block.instant.block_number # ex.instant.block_number + 1
    THEN [exchange |-> ex, returned |-> Returned("BlockOutOfOrder", block, {})]
    ELSE LET r == HandleEvents(ex.perp, block.events, block.instant) IN
         IF r.err # ""
         THEN [exchange |-> ex, returned |-> Returned(r.err, block, {})]
         ELSE [exchange |-> [instant |-> block.instant,
                             perp |-> ExpireOrdersIn(r.perp, traversal, block.instant)],
               returned |-> Returned("", block, ExpiredBy(r.perp, block.instant))]

\* A contract without orders at block 0; no snapshot has been taken.
ReplayInit ==
    /\ contract = EmptyContract
    /\ exch = FreshExchange(0)
    /\ replica = [exchange |-> FreshExchange(0), returned |-> "none"]
    /\ lastRes = "none"
    /\ notes = {}
    /\ consumer = "test_snapshot_and_events"
    /\ snapshotAt = 0
    /\ running = FALSE
    /\ handed = <<>>
    /\ chain = <<>>
    /\ from = 1
    /\ block_num = 1
    /\ spc = "idle"
    /\ blockAns = "pending"
    /\ logsAns = [kind |-> "pending", logs |-> <<>>]
    /\ items = <<>>
    /\ nMisses = 0
    /\ nSleeps = 0
    /\ callMisses = 0
    /\ processor = [order_context |-> <<>>, pending_maker_fills |-> <<>>,
                    prev_tx_index |-> <<>>]
    /\ tradeItems = <<>>
    /\ panicked = FALSE
    /\ writer = FALSE
    /\ readers = 0
    /\ ipc = "off"
    /\ batch = <<>>
    /\ evIdx = 0
    /\ saved = <<>>
    /\ committed = exch
    /\ cancelled = FALSE
    /\ blocks_left = <<>>
    /\ cmdResult = "none"
    /\ cpc = "off"
    /\ cliItem = <<>>
    /\ num_blocks = <<>>
    /\ exit_code = 0

\* The contract executes a block before the snapshot is taken.
ContractBlock ==
    /\ ~running
    /\ contract.block < MaxReplayBlock - 1
    /\ \E evs \in ContractBlocks :
         LET r == ExecuteBlock(contract, evs) IN
         /\ r.ok
         /\ contract' = r.contract
    /\ UNCHANGED <<replica, exchVars, chainVars, streamVars, consumerVars>>
    /\ UNCHANGED <<tradeVars, indexerVars, cliVars>>

\* SnapshotBuilder::build at the contract's block; both exchanges start from
\* the snapshot.
TakeSnapshot ==
    /\ ~running
    /\ \E links \in DeliveredLinks(contract) :
         /\ exch' = BuildSnapshot(contract, links)
         /\ notes' = (IF links = AllStoredLinks(contract) THEN {} ELSE {"AbsentLinks"})
                     \cup (IF DOMAIN contract.orders = {} THEN {} ELSE {"Orders"})
    /\ replica' = [exchange |-> exch', returned |-> "none"]
    /\ snapshotAt' = contract.block
    /\ running' = TRUE
    /\ UNCHANGED <<contract, lastRes, streamVars, consumer, handed>>
    /\ UNCHANGED <<tradeVars, indexerVars, cliVars>>

\* The contract executes its next block and both exchanges apply the events
\* it emitted, each with the traversal its hash map gives.
ReplayBlock ==
    /\ running
    /\ contract.block < MaxReplayBlock
    /\ \E evs \in ContractBlocks, t1 \in Traversals, t2 \in Traversals :
         LET r == ExecuteBlock(contract, evs)
             block == RawBlockEvents(contract.block + 1, evs)
             a == apply_events_in(exch, block, t1)
             b == apply_events_in(replica.exchange, block, t2)
         IN /\ r.ok
            /\ contract' = r.contract
            /\ exch' = a.exchange
            /\ lastRes' = a.returned
            /\ replica' = [exchange |-> b.exchange, returned |-> b.returned]
            /\ handed' = Append(handed, block.instant.block_number)
    /\ UNCHANGED <<chainVars, streamVars, consumer, snapshotAt, running>>
    /\ UNCHANGED <<tradeVars, indexerVars, cliVars>>

ReplayNext ==
    \/ ContractBlock
    \/ TakeSnapshot
    \/ ReplayBlock

\* ------------------------------------------------------------------------
\* The book of a perpetual under add, update and remove, and rebuilt from a
\* snapshot of its own orders whose pointers may name absent orders
\* ------------------------------------------------------------------------

\* The contract storage that holds the orders and queues of an exchange.
ContractOf(ex) ==
    LET book == ex.perp.book
        keys == {<<"Ask", p>> : p \in DOMAIN book.asks}
                \cup {<<"Bid", p>> : p \in DOMAIN book.bids}
    IN [block |-> ex.instant.block_number,
        orders |-> [id \in DOMAIN ex.perp.orders |->
                       [orderId |-> id,
                        orderType |-> ex.perp.orders[id].type,
                        price |-> ex.perp.orders[id].price,
                        size |-> ex.perp.orders[id].size,
                        expiryBlock |-> ex.perp.orders[id].expiry_block]],
        queues |-> [k \in keys |->
                       LevelQueue(book, SideLevels(book, k[1])[k[2]])]]

\* SnapshotBuilder::build of the orders the exchange holds, with the pointers
\* as delivered.
PerpRebuild ==
    /\ DOMAIN exch.perp.orders # {}
    /\ \E links \in DeliveredLinks(ContractOf(exch)) :
         /\ exch' = BuildSnapshot(ContractOf(exch), links)
         /\ notes' = {"Rebuilt"}
                     \cup (IF links = AllStoredLinks(ContractOf(exch)) THEN {}
                           ELSE {"AbsentLinks"})
    /\ UNCHANGED <<lastRes, streamVars, consumerVars, tradeVars, indexerVars>>
    /\ UNCHANGED <<replayVars, cliVars>>

\* add_order of an order of size 1 whose id is vacant.
QueueAddOrder ==
    /\ \E id \in PerpOrderIds \ DOMAIN exch.perp.orders,
          type \in PlacedTypes, price \in Prices :
         exch' = [exch EXCEPT !.perp =
                     add_order(exch.perp,
                               placed(exch.instant, PerpContext(type, price), id, 1))]
    /\ notes' = {"Added"}
    /\ UNCHANGED <<lastRes, streamVars, consumerVars, tradeVars, indexerVars>>
    /\ UNCHANGED <<replayVars, cliVars>>

\* update_order of an order that is there, to a price; its size stays.
QueueUpdateOrder ==
    /\ \E id \in DOMAIN exch.perp.orders, price \in Prices :
         LET o == exch.perp.orders[id]
             r == update_order(exch.perp,
                               updated(o, exch.instant, Some(price), None, None, None))
         IN /\ exch' = [exch EXCEPT !.perp = r.perp]
            /\ notes' = (IF price = o.price THEN {"UpdatedInPlace"} ELSE {"Repriced"})
                         \cup (IF InMiddle(exch.perp.book, id) THEN {"FromMiddle"} ELSE {})
    /\ UNCHANGED <<lastRes, streamVars, consumerVars, tradeVars, indexerVars>>
    /\ UNCHANGED <<replayVars, cliVars>>

BookNext ==
    \/ QueueAddOrder
    \/ QueueUpdateOrder
    \/ PerpRemoveOrder
    \/ PerpRebuild

\* ------------------------------------------------------------------------
\* update_order and remove_order called for an order id that is not in the
\* orders map
\* ------------------------------------------------------------------------
PerpetualIds == {1, 2}

\* update_order with an order whose id is vacant.
PerpUpdateAbsent ==
    /\ \E pid \in PerpetualIds, id \in PerpOrderIds \ DOMAIN exch.perp.orders,
          type \in PlacedTypes, price \in Prices :
         LET order == placed(exch.instant, PerpContext(type, price), id, 1)
             r == update_order_of(pid, exch.perp, order)
         IN /\ exch' = [exch EXCEPT !.perp = r.perp]
            /\ lastRes' = [call |-> <<"update_order", pid, id>>, result |-> r.result]
    /\ notes' = {"Absent"}
    /\ UNCHANGED <<streamVars, consumerVars, tradeVars, indexerVars>>
    /\ UNCHANGED <<replayVars, cliVars>>

\* remove_order of an order id that is vacant.
PerpRemoveAbsent ==
    /\ \E pid \in PerpetualIds, id \in PerpOrderIds \ DOMAIN exch.perp.orders :
         LET r == remove_order_of(pid, exch.perp, id)
         IN /\ exch' = [exch EXCEPT !.perp = r.perp]
            /\ lastRes' = [call |-> <<"remove_order", pid, id>>, result |-> r.result]
    /\ notes' = {"Absent"}
    /\ UNCHANGED <<streamVars, consumerVars, tradeVars, indexerVars>>
    /\ UNCHANGED <<replayVars, cliVars>>

PerpetualCallsNext ==
    \/ QueueAddOrder
    \/ QueueUpdateOrder
    \/ PerpRemoveOrder
    \/ PerpUpdateAbsent
    \/ PerpRemoveAbsent

\* ------------------------------------------------------------------------
\* CLI commands: the render loops of trace, show book, show account and
\* show trades, and main (src/crates/cli/src)
\* ------------------------------------------------------------------------
CliCommands == {"trace", "book", "account", "trades"}

\* The event lists of the blocks the stream hands over: none, a placement,
\* and a cancellation of an order the exchange does not hold.
CliBlocks ==
    {<<>>, <<OrderPlaced(1, "OpenLong", 100, 1, 0)>>, <<OrderCancelled(2)>>}

\* The items the stream may yield for block n: the block, or an error.
CliItems(n) ==
    {[kind |-> "Err", block |-> RawBlockEvents(n, <<>>)]}
    \cup {[kind |-> "Ok", block |-> RawBlockEvents(n, evs)] : evs \in CliBlocks}

\* Mutant: the remaining-block counter is not looked at.
loop_breaks_TokenOnly(token_cancelled, left) == token_cancelled

\* cancellation_token.is_cancelled() || blocks_left.is_some_and(|c| c == 0)
loop_breaks(token_cancelled, left) ==
    token_cancelled \/ (left # None /\ left[1] = 0)

\* if let Some(ref mut count) = blocks_left { *count -= 1; }
count_down(left) == IF left = None THEN None ELSE Some(left[1] - 1)

\* The command starts: the snapshot is built (none for show trades), the
\* stream is created at the block after it, blocks_left = num_blocks.
CliInit ==
    /\ consumer \in CliCommands
    /\ num_blocks \in {None} \cup {Some(n) : n \in 0..MaxNumBlocks}
    /\ blocks_left = num_blocks
    /\ cancelled = FALSE
    /\ cmdResult = "none"
    /\ cpc = "await"
    /\ cliItem = <<>>
    /\ exit_code = 0
    /\ exch = FreshExchange(0)
    /\ lastRes = "none"
    /\ notes = {}
    /\ chain = <<>>
    /\ from = 1
    /\ block_num = 1
    /\ spc = "idle"
    /\ blockAns = "pending"
    /\ logsAns = [kind |-> "pending", logs |-> <<>>]
    /\ items = <<>>
    /\ nMisses = 0
    /\ nSleeps = 0
    /\ callMisses = 0
    /\ snapshotAt = 0
    /\ running = TRUE
    /\ handed = <<>>
    /\ processor = [order_context |-> <<>>, pending_maker_fills |-> <<>>,
                    prev_tx_index |-> <<>>]
    /\ tradeItems = <<>>
    /\ panicked = FALSE
    /\ writer = FALSE
    /\ readers = 0
    /\ ipc = "off"
    /\ batch = <<>>
    /\ evIdx = 0
    /\ saved = <<>>
    /\ committed = exch
    /\ replica = <<>>
    /\ contract = <<>>

\* CTRL+C: the signal task cancels the token, at any moment of the loop.
CliCancel ==
    /\ cpc \in {"await", "item", "apply"}
    /\ ~cancelled
    /\ cancelled' = TRUE
    /\ UNCHANGED <<blocks_left, cmdResult, cpc, cliItem, num_blocks, exit_code>>
    /\ UNCHANGED <<streamVars, exchVars, chainVars, consumerVars>>
    /\ UNCHANGED <<tradeVars, indexerVars, replayVars>>

\* stream.next().await returns an item.
CliStreamItem ==
    /\ cpc = "await"
    /\ block_num <= MaxCliBlock
    /\ \E item \in CliItems(block_num) :
         /\ cliItem' = item
         /\ block_num' = (IF item.kind = "Ok" THEN block_num + 1 ELSE block_num)
         /\ notes' = notes \cup (IF item.kind = "Err" THEN {"StreamErr"} ELSE {})
    /\ cpc' = "item"
    /\ UNCHANGED <<cancelled, blocks_left, cmdResult, num_blocks, exit_code>>
    /\ UNCHANGED <<chain, spc, blockAns, logsAns, items, nMisses, nSleeps, callMisses, from>>
    /\ UNCHANGED <<exchVars, consumer, snapshotAt, running, handed>>
    /\ UNCHANGED <<tradeVars, indexerVars, replayVars>>

\* The head of the loop body: the `while let` pattern, the test of the token
\* and the counter, and `res?`.  show trades matches Some(Ok(..)) only, so
\* an Err item ends its loop; it has nothing to apply and counts the block
\* down at once.  After a break show book and show account leave the
\* alternate screen, which may fail.
CliLoopHead ==
    /\ cpc = "item"
    /\ IF consumer = "trades" /\ cliItem.kind = "Err"
       THEN /\ cpc' = "done"
            /\ cmdResult' = "Ok"
            /\ UNCHANGED <<blocks_left, notes>>
       ELSE IF loop_breaks(cancelled, blocks_left)
       THEN /\ cpc' = "done"
            /\ \E io_ok \in (IF consumer \in {"book", "account"} THEN BOOLEAN ELSE {TRUE}) :
                 /\ cmdResult' = (IF io_ok THEN "Ok" ELSE "Err")
                 /\ notes' = notes \cup (IF io_ok THEN {} ELSE {"IoErr"})
            /\ UNCHANGED blocks_left
       ELSE IF consumer = "trades"
       THEN /\ cpc' = "await"
            /\ blocks_left' = count_down(blocks_left)
            /\ UNCHANGED <<cmdResult, notes>>
       ELSE IF cliItem.kind = "Err"
       THEN /\ cpc' = "done"
            /\ cmdResult' = "Err"
            /\ UNCHANGED <<blocks_left, notes>>
       ELSE /\ cpc' = "apply"
            /\ UNCHANGED <<blocks_left, cmdResult, notes>>
    /\ UNCHANGED <<cancelled, cliItem, num_blocks, exit_code>>
    /\ UNCHANGED <<streamVars, exchVars, consumer, snapshotAt, running, handed>>
    /\ UNCHANGED <<tradeVars, indexerVars, replayVars>>

\* exchange.apply_events(&block_events)? and the rest of the loop body: the
\* rendering (whose writes may fail in show book and show account) and the
\* count-down.
CliApply ==
    /\ cpc = "apply"
    /\ LET r == apply_events(exch, cliItem.block) IN
       IF r.err # ""
       THEN /\ cmdResult' = "Err"
            /\ cpc' = "done"
            /\ notes' = notes \cup {"ApplyErr"}
            /\ lastRes' = r.err
            /\ UNCHANGED <<exch, handed, blocks_left>>
       ELSE /\ exch' = r.exchange
            /\ lastRes' = "Ok"
            /\ handed' = Append(handed, cliItem.block.instant.block_number)
            /\ \E io_ok \in (IF consumer \in {"book", "account"} THEN BOOLEAN ELSE {TRUE}) :
                 IF io_ok
                 THEN /\ blocks_left' = count_down(blocks_left)
                      /\ cpc' = "await"
                      /\ cmdResult' = cmdResult
                      /\ notes' = notes
                 ELSE /\ cmdResult' = "Err"
                      /\ cpc' = "done"
                      /\ notes' = notes \cup {"IoErr"}
                      /\ UNCHANGED blocks_left
    /\ UNCHANGED <<cancelled, cliItem, num_blocks, exit_code>>
    /\ UNCHANGED <<streamVars, consumer, snapshotAt, running>>
    /\ UNCHANGED <<tradeVars, indexerVars, replayVars>>

\* main: an Err from run is printed and the process exits with status 1.
CliMain ==
    /\ cpc = "done"
    /\ cpc' = "exited"
    /\ exit_code' = (IF cmdResult = "Err" THEN 1 ELSE 0)
    /\ UNCHANGED <<cancelled, blocks_left, cmdResult, cliItem, num_blocks>>
    /\ UNCHANGED <<streamVars, exchVars, chainVars, consumerVars>>
    /\ UNCHANGED <<tradeVars, indexerVars, replayVars>>

CliNext ==
    \/ CliCancel
    \/ CliStreamItem
    \/ CliLoopHead
    \/ CliApply
    \/ CliMain

\* The runtime keeps driving the command's task.
CliFairness ==
    /\ WF_vars(CliLoopHead)
    /\ WF_vars(CliApply)
    /\ WF_vars(CliMain)

\* ------------------------------------------------------------------------
\* Accounts, positions and open interest
\* (src/crates/sdk/src/state/account.rs, src/src/state/position.rs,
\* src/src/state/perpetual.rs; the fill handler of Exchange::apply_events
\* follows the specification, sections 3 and 4.3, and tests/events.rs)
\* ------------------------------------------------------------------------
PositionAccounts == {0, 1, 2}

PositionPerpetuals == {16, 17}

\* Position: only its type and its size are modelled.
Position(type, size) == [type |-> type, size |-> size]

\* PositionType of a position opened by a fill on the given side.
PositionTypeOf(side) == IF side = "Bid" THEN "Long" ELSE "Short"

\* Mutant: a position whose size reaches 0 is kept.
position_after_KeepClosed(pos, side, size) ==
    IF pos = None
    THEN Some(Position(PositionTypeOf(side), size))
    ELSE LET p == pos[1] IN
         IF p.type = PositionTypeOf(side)
         THEN Some(Position(p.type, p.size + size))
         ELSE IF size <= p.size
         THEN Some(Position(p.type, p.size - size))
         ELSE Some(Position(PositionTypeOf(side), size - p.size))

\* The position an account has on a perpetual after a fill of `size` on
\* `side`: opened by the first fill, increased by a fill of its own
\* direction, decreased by one against it, destroyed when its size reaches
\* 0, inverted when the fill is larger than the position.
position_after(pos, side, size) ==
    IF pos = None
    THEN Some(Position(PositionTypeOf(side), size))
    ELSE LET p == pos[1] IN
         IF p.type = PositionTypeOf(side)
         THEN Some(Position(p.type, p.size + size))
         ELSE IF size < p.size
         THEN Some(Position(p.type, p.size - size))
         ELSE IF size = p.size
         THEN None
         ELSE Some(Position(PositionTypeOf(side), size - p.size))

\* Account::positions: the position of the account on the perpetual, if any.
PositionOf(ex, account, perp) ==
    IF perp \in DOMAIN ex.accounts[account].positions
    THEN Some(ex.accounts[account].positions[perp])
    ELSE None

\* Account::positions_mut: insert, replace or remove the position.
WithPosition(ex, account, perp, pos) ==
    [ex EXCEPT !.accounts[account].positions =
        IF pos = None THEN MapDel(@, perp) ELSE MapPut(@, perp, pos[1])]

\* The long size a position stands for in the open interest.
LongSize(pos) == IF pos # None /\ pos[1].type = "Long" THEN pos[1].size ELSE 0

\* Mutant: the previous size is not taken off.
update_open_interest_AddOnly(perp, instant, prev_size, new_size) ==
    [perp EXCEPT !.open_interest = @ + new_size, !.instant = instant]

\* Perpetual::update_open_interest: unsigned arithmetic, the previous size is
\* subtracted first; a subtraction below zero is recorded as an underflow.
update_open_interest(perp, instant, prev_size, new_size) ==
    IF prev_size > perp.open_interest
    THEN [perp EXCEPT !.underflow = TRUE, !.instant = instant]
    ELSE [perp EXCEPT !.open_interest = (@ - prev_size) + new_size,
                      !.instant = instant]

\* The part of the MakerOrderFilled handler that debits and credits one
\* account's position and updates the perpetual's open interest.
fill_account(ex, account, perp, side, size) ==
    LET prev == PositionOf(ex, account, perp)
        new == position_after(prev, side, size)
        e1 == WithPosition(ex, account, perp, new)
    IN  [e1 EXCEPT !.perpetuals[perp] =
            update_open_interest(@, ex.instant, LongSize(prev), LongSize(new))]

\* MakerOrderFilled: the maker's order was on the side opposite to the taker's.
apply_fill(ex, maker, taker, perp, taker_side, size) ==
    fill_account(
        fill_account(ex, maker, perp,
                     IF taker_side = "Bid" THEN "Ask" ELSE "Bid", size),
        taker, perp, taker_side, size)

\* A fresh exchange with its accounts created and no position open.
AccountsExchange ==
    [instant |-> InstantOf(0),
     perpetuals |-> [p \in PositionPerpetuals |->
                        [instant |-> InstantOf(0), open_interest |-> 0,
                         underflow |-> FALSE]],
     accounts |-> [a \in PositionAccounts |->
                      [balance |-> 0, locked_balance |-> 0, positions |-> EmptyMap]]]

\* What the contract accepts: a reduce-only order (CloseLong, CloseShort)
\* fills at most the position it closes.
FillAllowed(ex, account, perp, type, size) ==
    LET pos == PositionOf(ex, account, perp) IN
    /\ type \in {"CloseLong", "CloseShort"} =>
         /\ pos # None
         /\ pos[1].type = (IF type = "CloseLong" THEN "Long" ELSE "Short")
         /\ size <= pos[1].size
    /\ LET after == position_after(pos, Side(type), size) IN
       after # None => after[1].size <= MaxPositionSize

AccountsInit ==
    /\ exch = AccountsExchange
    /\ lastRes = None
    /\ notes = {}
    /\ chain = <<>>
    /\ from = 1
    /\ block_num = 1
    /\ spc = "idle"
    /\ blockAns = "pending"
    /\ logsAns = [kind |-> "pending", logs |-> <<>>]
    /\ items = <<>>
    /\ nMisses = 0
    /\ nSleeps = 0
    /\ callMisses = 0
    /\ consumer = "none"
    /\ snapshotAt = 0
    /\ running = FALSE
    /\ handed = <<>>
    /\ processor = [order_context |-> <<>>, pending_maker_fills |-> <<>>,
                    prev_tx_index |-> <<>>]
    /\ tradeItems = <<>>
    /\ panicked = FALSE
    /\ writer = FALSE
    /\ readers = 0
    /\ ipc = "off"
    /\ batch = <<>>
    /\ evIdx = 0
    /\ saved = <<>>
    /\ committed = <<>>
    /\ replica = <<>>
    /\ contract = <<>>
    /\ cancelled = FALSE
    /\ blocks_left = <<>>
    /\ cmdResult = "none"
    /\ cpc = "off"
    /\ cliItem = <<>>
    /\ num_blocks = <<>>
    /\ exit_code = 0

\* apply_events handles one MakerOrderFilled: a taker's request of
\* taker_type fills a resting order of maker_type of another account.
ApplyFill ==
    /\ \E maker \in PositionAccounts, taker \in PositionAccounts,
          perp \in PositionPerpetuals,
          maker_type \in {"OpenLong", "OpenShort", "CloseLong", "CloseShort"},
          taker_type \in {"OpenLong", "OpenShort", "CloseLong", "CloseShort"},
          size \in 1..MaxPositionSize :
         /\ maker # taker
         /\ Side(maker_type) # Side(taker_type)
         /\ FillAllowed(exch, maker, perp, maker_type, size)
         /\ FillAllowed(exch, taker, perp, taker_type, size)
         /\ exch' = apply_fill(exch, maker, taker, perp, Side(taker_type), size)
         /\ lastRes' = [maker |-> maker, taker |-> taker, perp |-> perp,
                        taker_side |-> Side(taker_type), size |-> size]
    /\ UNCHANGED <<streamVars, chainVars, consumerVars>>
    /\ UNCHANGED <<tradeVars, indexerVars, replayVars, cliVars>>

AccountsNext == ApplyFill

\* Subtraction of unsigned decimals (UD128): a result below zero is an
\* underflow and has no value.
sub_unsigned(a, b) ==
    IF b > a THEN [value |-> None, underflow |-> TRUE]
    ELSE [value |-> Some(a - b), underflow |-> FALSE]

\* Mutant: the locked balance is subtracted without the comparison.
available_balance_NoClamp(account) ==
    sub_unsigned(account.balance, account.locked_balance)

\* Account::available_balance
available_balance(account) ==
    IF account.locked_balance > account.balance
    THEN [value |-> Some(0), underflow |-> FALSE]
    ELSE sub_unsigned(account.balance, account.locked_balance)

\* Account::update_balance, called for a balance event of the account.
UpdateBalance ==
    /\ \E a \in PositionAccounts, balance \in 0..MaxBalance :
         /\ balance # exch.accounts[a].balance
         /\ exch' = [exch EXCEPT !.accounts[a].balance = balance]
         /\ lastRes' = [account |-> a, available |-> available_balance(exch'.accounts[a])]
    /\ UNCHANGED <<streamVars, chainVars, consumerVars>>
    /\ UNCHANGED <<tradeVars, indexerVars, replayVars, cliVars>>

\* Account::update_locked_balance, called when an order locks or releases
\* collateral; the locked balance may exceed the balance.
UpdateLockedBalance ==
    /\ \E a \in PositionAccounts, locked_balance \in 0..MaxBalance :
         /\ locked_balance # exch.accounts[a].locked_balance
         /\ exch' = [exch EXCEPT !.accounts[a].locked_balance = locked_balance]
         /\ lastRes' = [account |-> a, available |-> available_balance(exch'.accounts[a])]
    /\ UNCHANGED <<streamVars, chainVars, consumerVars>>
    /\ UNCHANGED <<tradeVars, indexerVars, replayVars, cliVars>>

BalanceNext ==
    \/ UpdateBalance
    \/ UpdateLockedBalance

\* ------------------------------------------------------------------------
\* The indexer's channels and a consumer waiting on them
\* (src/crates/sdk/src/testing/indexer.rs)
\*
\* Here items holds what was sent on the raw-events channel, tradeItems is
\* the queue of the state-events channel, cpc is the consumer's position,
\* num_blocks the block_num argument of wait_for, cliItem the batch wait_for
\* received last, and replica the clone of the snapshot the consumer took.
\* ------------------------------------------------------------------------
WaitBlocks == 2..MaxExBlock

streamRest == <<chain, spc, blockAns, logsAns, nMisses, nSleeps, callMisses, from>>

cliRest == <<cancelled, blocks_left, cmdResult, exit_code>>

\* The StateBlockEvents apply_events returns for a batch it applied.
StateBlockEventsOf(b) ==
    [instant |-> b.instant,
     events |-> [i \in 1..Len(b.events) |-> StateEventOf(b.events[i])]]

\* Mutant: the state events are sent whatever apply_events returned.
state_events_result_Always(res, b, some) == Some(StateBlockEventsOf(b))

\* match res: the state events run sends.  Ok(Some(result)) gives result;
\* Err gives nothing, and neither does Ok(None), which apply_events may
\* return for a block without state change.
state_events_result(res, b, some) ==
    IF res # "Ok" THEN None
    ELSE IF b.events = <<>> /\ ~some THEN None
    ELSE Some(StateBlockEventsOf(b))

\* wait_for: the test a received batch is put to, for a block number.
wait_for_matches(be, block_num_arg) ==
    block_num_arg # None /\ be.instant.block_number = block_num_arg[1]

\* stream.next().await returns a batch.  The stream yields blocks in
\* increasing order; the batch is the block of the exchange's own number
\* or of the next, with its events.
IndexerNextBatch ==
    /\ ipc = "next"
    /\ exch.instant.block_number < MaxExBlock
    /\ \E n \in {exch.instant.block_number, exch.instant.block_number + 1},
          evs \in IndexerBlocks :
         /\ n >= block_num
         /\ batch' = Some(RawBlockEvents(n, evs))
         /\ block_num' = n + 1
    /\ ipc' = "lock"
    /\ UNCHANGED <<streamRest, items, exchVars, chainVars, consumerVars, tradeVars>>
    /\ UNCHANGED <<writer, readers, evIdx, saved, committed>>
    /\ UNCHANGED <<replayVars, cliVars>>

\* self.raw_events_tx.send(batch).await: the batch is queued, or the
\* receiver is gone and run ends.
IndexerSendRaw ==
    /\ ipc = "send"
    /\ IF cpc = "dropped"
       THEN /\ ipc' = "done"
            /\ running' = FALSE
            /\ batch' = None
            /\ UNCHANGED items
       ELSE /\ items' = Append(items, batch[1])
            /\ ipc' = "match"
            /\ UNCHANGED <<running, batch>>
    /\ UNCHANGED <<streamRest, block_num, exchVars, chainVars, tradeVars>>
    /\ UNCHANGED <<consumer, snapshotAt, handed>>
    /\ UNCHANGED <<writer, readers, evIdx, saved, committed>>
    /\ UNCHANGED <<replayVars, cliVars>>

\* match res { .. }: the state events are sent for Ok(Some(..)); an error of
\* apply_events or a failed send ends run.
IndexerMatch ==
    /\ ipc = "match"
    /\ \E some \in BOOLEAN :
         LET r == state_events_result(lastRes, batch[1], some)
             sends == r # None
         IN /\ tradeItems' = (IF sends /\ cpc # "dropped"
                              THEN Append(tradeItems, r[1]) ELSE tradeItems)
            /\ ipc' = (IF lastRes = "Ok" /\ ~(sends /\ cpc = "dropped")
                       THEN "next" ELSE "done")
            /\ running' = (ipc' = "next")
    /\ batch' = None
    /\ UNCHANGED <<streamVars, exchVars, chainVars>>
    /\ UNCHANGED <<consumer, snapshotAt, handed, processor, panicked>>
    /\ UNCHANGED <<writer, readers, evIdx, saved, committed>>
    /\ UNCHANGED <<replayVars, cliVars>>

\* wait_for(Some(n), None) is called.
WaitFor ==
    /\ cpc \in {"off", "true"}
    /\ \E n \in WaitBlocks : num_blocks' = Some(n)
    /\ cpc' = "wait_for"
    /\ replica' = None
    /\ UNCHANGED <<streamVars, exchVars, chainVars, consumerVars, tradeVars, indexerVars>>
    /\ UNCHANGED <<contract, cliRest, cliItem>>

\* wait_for: self.state_events_rx.next().await returns a batch; wait_for
\* returns true if it is the block waited for and goes on otherwise.
WaitForNext ==
    /\ cpc = "wait_for"
    /\ tradeItems # <<>>
    /\ cliItem' = Some(Head(tradeItems))
    /\ tradeItems' = Tail(tradeItems)
    /\ cpc' = (IF wait_for_matches(Head(tradeItems), num_blocks)
               THEN "true" ELSE "wait_for")
    /\ UNCHANGED <<streamVars, exchVars, chainVars, consumerVars, indexerVars>>
    /\ UNCHANGED <<processor, panicked, replayVars, cliRest, num_blocks>>

\* wait_for: the channel is empty and its sender was dropped with run;
\* wait_for returns false.
WaitForClosed ==
    /\ cpc = "wait_for"
    /\ tradeItems = <<>>
    /\ ipc = "done"
    /\ cpc' = "false"
    /\ UNCHANGED <<streamVars, exchVars, chainVars, consumerVars, tradeVars, indexerVars>>
    /\ UNCHANGED <<replayVars, cliRest, cliItem, num_blocks>>

\* state.snapshot().clone() after wait_for returned true: a read guard is
\* taken for the statement and the exchange is copied.
SnapshotClone ==
    /\ cpc = "true"
    /\ CanRead(writer)
    /\ replica' = Some(exch)
    /\ UNCHANGED <<streamVars, exchVars, chainVars, consumerVars, tradeVars, indexerVars>>
    /\ UNCHANGED <<contract, cliVars>>

\* The consumer drops the IndexedState and with it both receivers.
IndexedStateDrop ==
    /\ cpc \in {"off", "true", "false"}
    /\ cpc' = "dropped"
    /\ UNCHANGED <<streamVars, exchVars, chainVars, consumerVars, tradeVars, indexerVars>>
    /\ UNCHANGED <<replayVars, cliRest, cliItem, num_blocks>>

ChannelsNext ==
    \/ IndexerStart
    \/ IndexerNextBatch
    \/ IndexerStreamError
    \/ IndexerLock
    \/ IndexerApplyEvent
    \/ IndexerReject
    \/ IndexerCommit
    \/ IndexerSendRaw
    \/ IndexerMatch
    \/ WaitFor
    \/ WaitForNext
    \/ WaitForClosed
    \/ SnapshotClone
    \/ IndexedStateDrop

\* ------------------------------------------------------------------------
\* Price freshness of a perpetual (src/src/state/perpetual.rs)
\*
\* Here exch is the exchange with its instant and, per perpetual, the
\* perpetual's own instant, the timestamps of its mark and oracle prices and
\* price_max_age; lastRes is the list of events of the block applied last.
\* ------------------------------------------------------------------------
PriceMaxAges == {BlockTimestamp(1), BlockTimestamp(2)}

\* Perpetual::is_mark_price_obsolete
is_mark_price_obsolete(perp) ==
    perp.mark_price_timestamp + perp.price_max_age <= perp.instant.block_timestamp

\* Perpetual::is_oracle_price_obsolete
is_oracle_price_obsolete(perp) ==
    perp.oracle_price_timestamp + perp.price_max_age <= perp.instant.block_timestamp

\* Perpetual::update_last_price: of the fields modelled, the instant.
update_last_price(perp, instant) == [perp EXCEPT !.instant = instant]

\* Perpetual::update_mark_price
update_mark_price(perp, instant) ==
    [perp EXCEPT !.mark_price_timestamp = instant.block_timestamp,
                 !.instant = instant]

\* Perpetual::update_oracle_price
update_oracle_price(perp, instant) ==
    [perp EXCEPT !.oracle_price_timestamp = instant.block_timestamp,
                 !.instant = instant]

\* Perpetual::update_price_max_age
update_price_max_age(perp, instant, price_max_age) ==
    [perp EXCEPT !.price_max_age = price_max_age, !.instant = instant]

\* The price and parameter events of a block, each for one perpetual.
PriceEvents ==
    {[kind |-> k, perp |-> p, price_max_age |-> 0] :
        k \in {"MarkPrice", "OraclePrice", "LastPrice"}, p \in PositionPerpetuals}
    \cup {[kind |-> "PriceMaxAge", perp |-> p, price_max_age |-> a] :
            p \in PositionPerpetuals, a \in PriceMaxAges}

PriceBlocks ==
    {<<>>} \cup {<<e>> : e \in PriceEvents}
           \cup {<<e, f>> : e \in PriceEvents, f \in PriceEvents}

\* Dispatch of one event on its perpetual.
price_event(perp, ev, instant) ==
    IF ev.kind = "MarkPrice" THEN update_mark_price(perp, instant)
    ELSE IF ev.kind = "OraclePrice" THEN update_oracle_price(perp, instant)
    ELSE IF ev.kind = "LastPrice" THEN update_last_price(perp, instant)
    ELSE update_price_max_age(perp, instant, ev.price_max_age)

\* The perpetuals after the events of a block, in their order.
RECURSIVE price_events(_, _, _)
price_events(perps, evs, instant) ==
    IF evs = <<>> THEN perps
    ELSE price_events(
            [perps EXCEPT ![Head(evs).perp] = price_event(@, Head(evs), instant)],
            Tail(evs), instant)

\* Perpetual::new from a snapshot at `instant`: the timestamps and the
\* maximum age are those the contract reports.
PricePerpetual(instant, mark_ts, oracle_ts, price_max_age) ==
    [instant |-> instant, mark_price_timestamp |-> mark_ts,
     oracle_price_timestamp |-> oracle_ts, price_max_age |-> price_max_age]

\* A snapshot at block 1: the mark price is of that block, the oracle price
\* of the block before.
PricesInit ==
    /\ exch = [instant |-> InstantOf(1),
               perpetuals |-> [p \in PositionPerpetuals |->
                                 PricePerpetual(InstantOf(1), BlockTimestamp(1),
                                                BlockTimestamp(0), BlockTimestamp(2))]]
    /\ lastRes = None
    /\ notes = {}
    /\ chain = <<>>
    /\ from = 1
    /\ block_num = 1
    /\ spc = "idle"
    /\ blockAns = "pending"
    /\ logsAns = [kind |-> "pending", logs |-> <<>>]
    /\ items = <<>>
    /\ nMisses = 0
    /\ nSleeps = 0
    /\ callMisses = 0
    /\ consumer = "none"
    /\ snapshotAt = 1
    /\ running = FALSE
    /\ handed = <<>>
    /\ processor = [order_context |-> <<>>, pending_maker_fills |-> <<>>,
                    prev_tx_index |-> <<>>]
    /\ tradeItems = <<>>
    /\ panicked = FALSE
    /\ writer = FALSE
    /\ readers = 0
    /\ ipc = "off"
    /\ batch = <<>>
    /\ evIdx = 0
    /\ saved = <<>>
    /\ committed = <<>>
    /\ replica = <<>>
    /\ contract = <<>>
    /\ cancelled = FALSE
    /\ blocks_left = <<>>
    /\ cmdResult = "none"
    /\ cpc = "off"
    /\ cliItem = <<>>
    /\ num_blocks = <<>>
    /\ exit_code = 0

\* apply_events on the next block: its price and parameter events are
\* dispatched to their perpetuals with the block's instant, then the
\* exchange's instant is set to the block's.
ApplyPriceBlock ==
    /\ exch.instant.block_number < MaxPriceBlock
    /\ \E evs \in PriceBlocks :
         LET instant == InstantOf(exch.instant.block_number + 1) IN
         /\ exch' = [instant |-> instant,
                     perpetuals |-> price_events(exch.perpetuals, evs, instant)]
         /\ lastRes' = Some(evs)
    /\ UNCHANGED <<streamVars, chainVars, consumerVars>>
    /\ UNCHANGED <<tradeVars, indexerVars, replayVars, cliVars>>

PricesNext == ApplyPriceBlock

SpecStream == StreamInit /\ [][StreamNext]_vars

SpecExchange == ExchangeInit /\ [][ExchangeNext]_vars

SpecChain == ExchangeInit /\ [][ApplyChainBlock]_vars

SpecHandoff == HandoffInit /\ [][HandoffNext]_vars

SpecPerpetual == ExchangeInit /\ [][PerpetualNext]_vars

SpecTrade == TradeInit /\ [][TradeNext]_vars

SpecTradeStream == StreamInit /\ [][TradeStreamNext]_vars

SpecIndexer == IndexerInit /\ [][IndexerStep]_vars

SpecReplay == ReplayInit /\ [][ReplayNext]_vars

SpecBook == ExchangeInit /\ [][BookNext]_vars

SpecCli == CliInit /\ [][CliNext]_vars /\ CliFairness

SpecStreamLive == StreamInit /\ [][LiveNext]_vars /\ LiveFairness

SpecAccounts == AccountsInit /\ [][AccountsNext]_vars

SpecBalance == AccountsInit /\ [][BalanceNext]_vars

SpecReturning == ExchangeInit /\ [][ReturningNext]_vars

SpecTradeRequests == TradeInit /\ [][RequestsNext]_vars

SpecChannels == IndexerInit /\ [][ChannelsNext]_vars

SpecPrices == PricesInit /\ [][PricesNext]_vars

SpecTradeFills == TradeInit /\ [][FillsNext]_vars

SpecPerpetualCalls == ExchangeInit /\ [][PerpetualCallsNext]_vars

\* ------------------------------------------------------------------------
\* Properties of the raw stream
\* ------------------------------------------------------------------------
IsOkItem(it) == it.kind = "Ok"

OkItems == SelectSeq(items, IsOkItem)

\* C1: the Ok items of a stream started at `from` carry the block numbers
\* from, from + 1, from + 2, ... in that order, whatever the provider answers
\* (not available, RPC/decode error, block present): no block is skipped and
\* none is delivered twice.
C1_GapFree ==
    \A i \in 1..Len(OkItems) : OkItems[i].block_number = from + i - 1

\* C1 witness: two consecutive blocks were delivered although the stream also
\* met a not-available answer and yielded an error in between.
C1_Witness ==
    /\ Len(OkItems) >= 2
    /\ nMisses >= 1
    /\ \E i \in 1..Len(items) : items[i].kind = "Err"

\* The provider answered "block not available" in the current round.
ProviderMiss ==
    /\ spc = "join"
    /\ blockAns = "none"
    /\ logsAns.kind = "logs"

\* The provider answered the current round with the block and decodable logs.
ProviderHit ==
    /\ spc = "join"
    /\ blockAns = "some"
    /\ logsAns.kind = "logs"
    /\ \A i \in 1..Len(logsAns.logs) : logsAns.logs[i].decodes

C5_SleepPerMiss ==
    nMisses = nSleeps + (IF spc = "sleep" THEN 1 ELSE 0)

\* (a step that leaves the chain alone is a step of the stream)
C5_MissStep ==
    ProviderMiss /\ chain' = chain
                 => /\ items' = items
                    /\ block_num' = block_num
                    /\ spc' = "sleep"

C5_HitStep ==
    ProviderHit /\ chain' = chain
                => /\ Len(items') = Len(items) + 1
                   /\ items'[Len(items')].kind = "Ok"
                   /\ items'[Len(items')].block_number = block_num
                   /\ SubSeq(items', 1, Len(items)) = items
                   /\ block_num' = block_num + 1
                   /\ spc' = "idle"

\* C5: when get_block answers None for block N k times and then returns the
\* block, the stream yields no item for the misses, sleeps once per miss,
\* then yields exactly one Ok item with block_number = N and goes on to
\* poll N + 1.
C5_MissThenBlock ==
    /\ [](C5_SleepPerMiss)
    /\ [][C5_MissStep /\ C5_HitStep]_vars

\* C5 witness: block N was missed twice within one poll and then delivered,
\* as the only item of that poll, and the stream stands at N + 1.
C5_Witness ==
    /\ spc = "idle"
    /\ callMisses = 2
    /\ nSleeps >= 2
    /\ Len(items) = 1
    /\ items[1].kind = "Ok"
    /\ block_num = items[1].block_number + 1

\* ------------------------------------------------------------------------
\* Properties of apply_events
\* ------------------------------------------------------------------------
NextBlock == exch.instant.block_number + 1

Applied(n, evs) == apply_events(exch, RawBlockEvents(n, evs))

\* Whatever block is offered: any number but instant + 1 is an error that
\* leaves the exchange as it was, and a success is on instant + 1 and sets
\* the instant to the block's.
C2_AnyBlock ==
    \A n \in 0..(MaxExBlock + 1), evs \in Blocks :
        LET r == Applied(n, evs) IN
        /\ n # NextBlock => r.err # "" /\ r.exchange = exch
        /\ r.err = "" => /\ exch.instant.block_number = n - 1
                         /\ r.exchange.instant = InstantOf(n)

\* Every call that was made: success advanced the block number by exactly
\* one, rejection of the block number changed nothing.
C2_Step ==
    /\ lastRes' = "Ok" => exch'.instant.block_number = exch.instant.block_number + 1
    /\ lastRes' = "BlockOutOfOrder" => exch' = exch

C3_BlockAtomic ==
    \A evs \in Blocks :
        BlockViolates(exch.perp, evs, InstantOf(NextBlock))
            => LET r == Applied(NextBlock, evs) IN
               r.err # "" /\ r.exchange = exch

\* ------------------------------------------------------------------------
\* Properties of the snapshot-to-stream handoff
\* ------------------------------------------------------------------------

\* C4: a consumer whose snapshot was taken at block B starts the raw stream
\* at snapshot.instant().next(): the blocks handed to apply_events are B + 1,
\* B + 2, ... (none missed, B not handed a second time) and none is rejected
\* for its block number; for every consumer of the repository.
C4_Handoff ==
    /\ \A i \in 1..Len(handed) : handed[i] = snapshotAt + i
    /\ lastRes # "BlockOutOfOrder"

\* ------------------------------------------------------------------------
\* Properties of the perpetual's orders and book
\* ------------------------------------------------------------------------

\* The placement events whose expiry is not in the past of block n.
Placements(n) ==
    {ev \in Events : /\ ev.kind = "OrderPlaced"
                     /\ (ev.expiry_block = 0 \/ ev.expiry_block >= n)}

\* The perpetual holds the order under its id, in the map and in the book.
HoldsOnly(perp, order) ==
    /\ order.order_id \in DOMAIN perp.orders
    /\ perp.orders[order.order_id] = order
    /\ order.order_id \in DOMAIN perp.book.orders
    /\ perp.book.orders[order.order_id].order = order

\* C6: adding an order whose id is already present, without a prior removal,
\* is rejected with DuplicateOrderId and changes neither the orders map nor
\* the book; after a removal of the id earlier in the same block the
\* placement succeeds and the perpetual holds only the new order under it.
C6_DuplicateOrderId ==
    \A ev \in Placements(NextBlock) :
        ev.order_id \in DOMAIN exch.perp.orders
            => /\ LET r == HandleEvent(exch.perp, ev, InstantOf(NextBlock)) IN
                  r.err = "DuplicateOrderId" /\ r.perp = exch.perp
               /\ LET removed == remove_order(exch.perp, ev.order_id).perp
                      r == HandleEvent(removed, ev, InstantOf(NextBlock))
                  IN /\ r.err = ""
                     /\ HoldsOnly(r.perp, placed(InstantOf(NextBlock), ev,
                                                ev.order_id, ev.size))

\* The order is queued in the book at the level of its own side and price.
InBookAt(book, o) ==
    /\ o.order_id \in DOMAIN book.orders
    /\ LET lv == SideLevels(book, Side(o.type)) IN
       /\ o.price \in DOMAIN lv
       /\ LET q == LevelQueue(book, lv[o.price]) IN
          \E i \in 1..Len(q) : q[i] = o.order_id

\* C7: every order of the orders map is in the book at the level of its own
\* (side, price), and the book holds no order that the orders map lacks.
C7_OrdersInBook ==
    /\ \A id \in DOMAIN exch.perp.orders : InBookAt(exch.perp.book, exch.perp.orders[id])
    /\ DOMAIN exch.perp.book.orders \subseteq DOMAIN exch.perp.orders

\* The sum of the sizes of the queued orders, all of them or the non-expired.
RECURSIVE SumSizes(_, _, _)
SumSizes(book, q, all) ==
    IF q = <<>> THEN 0
    ELSE LET o == book.orders[Head(q)].order IN
         (IF all THEN o.size ELSE LiveSize(o)) + SumSizes(book, Tail(q), all)

RECURSIVE CountLive(_, _)
CountLive(book, q) ==
    IF q = <<>> THEN 0
    ELSE LiveCount(book.orders[Head(q)].order) + CountLive(book, Tail(q))

BookSides == {"Ask", "Bid"}

QueueAt(book, side, price) ==
    LET lv == SideLevels(book, side) IN
    IF price \in DOMAIN lv THEN LevelQueue(book, lv[price]) ELSE <<>>

\* size and num_orders of the level ask_level / bid_level returns for a side and
\* price; <<0, 0>> when there is no such level.
LevelAggregates(book, side, price) ==
    LET lvl == IF side = "Ask" THEN ask_level(book, price) ELSE bid_level(book, price)
    IN IF lvl = None THEN <<0, 0>> ELSE <<lvl[1].size, lvl[1].num_orders>>

\* best_ask / best_bid of a side.
Best(book, side) == IF side = "Ask" THEN best_ask(book) ELSE best_bid(book)

\* The orders whose expiry block the exchange has passed.
ExpiredOrders ==
    {id \in DOMAIN exch.perp.orders :
        LET o == exch.perp.orders[id] IN
        o.expiry_block # 0 /\ o.expiry_block <= exch.instant.block_number}

\* The sum of the sizes, and the number, of the queued orders whose expiry
\* block the exchange has not passed.
RECURSIVE SumUnexpired(_)
SumUnexpired(q) ==
    IF q = <<>> THEN <<0, 0>>
    ELSE LET rest == SumUnexpired(Tail(q)) IN
         IF Head(q) \in ExpiredOrders THEN rest
         ELSE <<rest[1] + exch.perp.orders[Head(q)].size, rest[2] + 1>>

\* After the end-of-block step each level counts only the orders whose expiry
\* block has not passed.
C9_LevelsCountLive ==
    \A side \in BookSides, p \in Prices :
        LevelAggregates(exch.perp.book, side, p)
            = SumUnexpired(QueueAt(exch.perp.book, side, p))

\* No order turns expired at the end of the next block.
QuietNextBlock == ExpiredBy(exch.perp, InstantOf(NextBlock)) = {}

\* Cancelling an expired order leaves its level's size and num_orders as
\* they were (in a block at whose end no other order expires).
C9_CancelExpired ==
    \A id \in ExpiredOrders :
        LET o == exch.perp.orders[id]
            r == Applied(NextBlock, <<OrderCancelled(id)>>)
        IN QuietNextBlock =>
           /\ r.err = ""
           /\ LevelAggregates(r.exchange.perp.book, Side(o.type), o.price)
                = LevelAggregates(exch.perp.book, Side(o.type), o.price)

\* A change that gives an expired order a future expiry adds its new size
\* and count to the level of its new price, and the best price of its side
\* is at least as good as that price, with the level's size if it is that
\* price (in a block at whose end no other order expires).
C9_ChangeExpired ==
    \A id \in ExpiredOrders :
        \A ev \in {e \in Events : /\ e.kind = "OrderChanged"
                                   /\ e.order_id = id
                                   /\ e.expiry_block > NextBlock} :
            LET o == exch.perp.orders[id]
                side == Side(o.type)
                r == Applied(NextBlock, <<ev>>)
                before == LevelAggregates(exch.perp.book, side, ev.price)
                after == LevelAggregates(r.exchange.perp.book, side, ev.price)
                best == Best(r.exchange.perp.book, side)
            IN QuietNextBlock =>
               /\ r.err = ""
               /\ after = <<before[1] + ev.size, before[2] + 1>>
               /\ best # None
               /\ IF side = "Ask" THEN best[1][1] <= ev.price ELSE best[1][1] >= ev.price
               /\ best[1][1] = ev.price => best[1][2] = after[1]

\* C9: after the end-of-block expiry step the size and num_orders of
\* ask_level / bid_level count only the non-expired orders of the level;
\* cancelling an expired order leaves the level's size and num_orders
\* unchanged; a change that gives an expired order a future expiry_block
\* adds its new size and count back to the level and to best_bid/best_ask.
C9_ExpiredOrders ==
    /\ C9_LevelsCountLive
    /\ C9_CancelExpired
    /\ C9_ChangeExpired

\* C9 witness: the last block changed an order that had expired, and the
\* order counts again in a level that it shares with another live order.
C9_Witness ==
    /\ "ChangedExpired" \in notes
    /\ \E side \in BookSides, p \in Prices :
         LET q == QueueAt(exch.perp.book, side, p) IN
         /\ Len(q) = 2
         /\ \E i \in 1..2 : exch.perp.orders[q[i]].expiry_block = ChangedExpiry
         /\ LevelAggregates(exch.perp.book, side, p)[2] = 2
         /\ Best(exch.perp.book, side) # None

\* C9 witness of the other case: the last block cancelled an expired order
\* and its level lives on with one live order.
C9_WitnessCancel ==
    /\ "CancelledExpired" \in notes
    /\ \E side \in BookSides, p \in Prices :
         LevelAggregates(exch.perp.book, side, p)[2] = 1

\* The order rests in the book (the book queues the very order the orders
\* map holds) and is live now and at the end of the next block.
Resting(o) ==
    /\ HoldsOnly(exch.perp, o)
    /\ ~is_expired(o)
    /\ (o.expiry_block = 0 \/ o.expiry_block > NextBlock)

\* A fill of part of an order reduces its size and its level's size by the
\* fill and keeps the queue as it is; a fill of all of it removes the order
\* from the orders map and the book.
C10_Fill ==
    \A id \in DOMAIN exch.perp.orders, f \in Sizes :
        LET o == exch.perp.orders[id]
            side == Side(o.type)
            r == Applied(NextBlock, <<MakerOrderFilled(id, f)>>)
            before == LevelAggregates(exch.perp.book, side, o.price)
            after == LevelAggregates(r.exchange.perp.book, side, o.price)
        IN (Resting(o) /\ QuietNextBlock /\ f <= o.size) =>
           /\ r.err = ""
           /\ IF f < o.size
              THEN /\ id \in DOMAIN r.exchange.perp.orders
                   /\ r.exchange.perp.orders[id].size = o.size - f
                   /\ after = <<before[1] - f, before[2]>>
                   /\ QueueAt(r.exchange.perp.book, side, o.price)
                        = QueueAt(exch.perp.book, side, o.price)
              ELSE /\ id \notin DOMAIN r.exchange.perp.orders
                   /\ id \notin DOMAIN r.exchange.perp.book.orders
                   /\ after = <<before[1] - f, before[2] - 1>>

\* Two orders queued at one price, the head filled whole and the second in
\* part within one block: the level is left with the second order alone, at
\* its size less the fill.
C10_HeadFirst ==
    \A side \in BookSides, p \in Prices, f \in Sizes :
        LET q == QueueAt(exch.perp.book, side, p) IN
        (/\ Len(q) = 2
         /\ q[1] \in DOMAIN exch.perp.orders
         /\ q[2] \in DOMAIN exch.perp.orders
         /\ Resting(exch.perp.orders[q[1]])
         /\ Resting(exch.perp.orders[q[2]])
         /\ QuietNextBlock
         /\ f < exch.perp.orders[q[2]].size) =>
            LET a == exch.perp.orders[q[1]]
                b == exch.perp.orders[q[2]]
                r == Applied(NextBlock, <<MakerOrderFilled(a.order_id, a.size),
                                         MakerOrderFilled(b.order_id, f)>>)
            IN /\ r.err = ""
               /\ QueueAt(r.exchange.perp.book, side, p) = <<b.order_id>>
               /\ r.exchange.perp.orders[b.order_id].size = b.size - f
               /\ LevelAggregates(r.exchange.perp.book, side, p) = <<b.size - f, 1>>

\* C10: a MakerOrderFilled for a resting order with fill f smaller than the
\* order's size reduces the order's size and its level's aggregate by f and
\* keeps its queue position; with f equal to the size the order is removed
\* from the orders map and the book.  Fills consume a level head first: with
\* two asks at one price, the first filled whole and the second in part, the
\* book ends with the second order alone at that price, at its remaining
\* size.
C10_MakerFills ==
    /\ C10_Fill
    /\ C10_HeadFirst

\* C10 witness: the last block filled the head of a level whole and the next
\* order in part; the level is left with that order alone, at its size less
\* the fill.
C10_Witness ==
    /\ notes = {"FullFill", "PartialFill", "HeadFirst"}
    /\ Cardinality(DOMAIN exch.perp.orders) = 1
    /\ \E p \in Prices :
         LET q == QueueAt(exch.perp.book, "Ask", p) IN
         /\ Len(q) = 1
         /\ exch.perp.orders[q[1]].size = MaxSize - 1
         /\ exch.perp.orders[q[1]].placed_size = Some(MaxSize)
         /\ LevelAggregates(exch.perp.book, "Ask", p) = <<MaxSize - 1, 1>>

\* ------------------------------------------------------------------------
\* Properties of update_order
\* ------------------------------------------------------------------------

\* The sequence without the entries equal to x.
RECURSIVE Without(_, _)
Without(q, x) ==
    IF q = <<>> THEN <<>>
    ELSE IF Head(q) = x THEN Without(Tail(q), x)
    ELSE <<Head(q)>> \o Without(Tail(q), x)

\* update_order at the order's own price: the queues are as they were and
\* the level's size moves by the difference of the sizes.
C11_SamePrice ==
    \A id \in DOMAIN exch.perp.orders, s \in Sizes :
        LET o == exch.perp.orders[id]
            side == Side(o.type)
            r == update_order(exch.perp,
                              updated(o, exch.instant, Some(o.price), Some(s), None, None))
            before == LevelAggregates(exch.perp.book, side, o.price)
        IN /\ r.err = ""
           /\ \A sd \in BookSides, p \in Prices :
                 QueueAt(r.perp.book, sd, p) = QueueAt(exch.perp.book, sd, p)
           /\ LevelAggregates(r.perp.book, side, o.price)
                 = <<before[1] + s - o.size, before[2]>>

\* update_order to another price: the order leaves its level, the orders it
\* leaves behind keep their order, and it is the tail of the new level.
C11_NewPrice ==
    \A id \in DOMAIN exch.perp.orders, p \in Prices, s \in Sizes :
        LET o == exch.perp.orders[id]
            side == Side(o.type)
            r == update_order(exch.perp,
                              updated(o, exch.instant, Some(p), Some(s), None, None))
            oldBefore == LevelAggregates(exch.perp.book, side, o.price)
            newBefore == LevelAggregates(exch.perp.book, side, p)
        IN p # o.price =>
           /\ r.err = ""
           /\ QueueAt(r.perp.book, side, o.price)
                 = Without(QueueAt(exch.perp.book, side, o.price), id)
           /\ QueueAt(r.perp.book, side, p)
                 = Append(QueueAt(exch.perp.book, side, p), id)
           /\ LevelAggregates(r.perp.book, side, o.price)
                 = <<oldBefore[1] - o.size, oldBefore[2] - 1>>
           /\ LevelAggregates(r.perp.book, side, p)
                 = <<newBefore[1] + s, newBefore[2] + 1>>

\* Three asks of size 1 queued at the upper price and none at the lower: the
\* middle one changed to the lower price leaves the first and the third, in
\* that order with size 2, is alone at the lower price, and is the best ask.
C11_Scenario ==
    LET q == QueueAt(exch.perp.book, "Ask", 101) IN
    (/\ Len(q) = 3
     /\ \A i \in 1..3 : exch.perp.orders[q[i]].size = 1
     /\ QueueAt(exch.perp.book, "Ask", 100) = <<>>) =>
        LET b == exch.perp.orders[q[2]]
            r == update_order(exch.perp,
                              updated(b, exch.instant, Some(100), Some(1), None, None))
        IN /\ QueueAt(r.perp.book, "Ask", 101) = <<q[1], q[3]>>
           /\ LevelAggregates(r.perp.book, "Ask", 101) = <<2, 2>>
           /\ QueueAt(r.perp.book, "Ask", 100) = <<q[2]>>
           /\ LevelAggregates(r.perp.book, "Ask", 100) = <<1, 1>>
           /\ best_ask(r.perp.book) = Some(<<100, 1>>)

\* C11: update_order with an unchanged price keeps the order's position in
\* its level's FIFO queue and only adjusts the level's aggregate size by the
\* size difference; with a changed price the order leaves its old level and
\* is appended at the tail of the new price's level, the relative order of
\* the orders left behind being unchanged (A, B, C at one price and B changed
\* to a lower price gives A then C with size 2 at the old price, B at the new
\* price, and best_ask at the new price).
C11_UpdateOrder ==
    /\ C11_SamePrice
    /\ C11_NewPrice
    /\ C11_Scenario

\* C11 witness: the last operation moved the middle one of three asks to the
\* lower price, where it is alone and the best ask; the other two are queued
\* at the upper price.
C11_Witness ==
    /\ notes = {"Repriced", "FromMiddle"}
    /\ Len(QueueAt(exch.perp.book, "Ask", 101)) = 2
    /\ LevelAggregates(exch.perp.book, "Ask", 101)[2] = 2
    /\ Len(QueueAt(exch.perp.book, "Ask", 100)) = 1
    /\ best_ask(exch.perp.book)
         = Some(<<100, exch.perp.orders[QueueAt(exch.perp.book, "Ask", 100)[1]].size>>)

\* ------------------------------------------------------------------------
\* Properties of order expiry
\* ------------------------------------------------------------------------

\* The orders of a side whose expiry block the exchange has not passed.
LiveOn(side) ==
    {id \in DOMAIN exch.perp.orders :
        /\ Side(exch.perp.orders[id].type) = side
        /\ id \notin ExpiredOrders}

RECURSIVE SumOf(_, _)
SumOf(ids, p) ==
    IF ids = {} THEN 0
    ELSE LET id == CHOOSE x \in ids : TRUE
             o == exch.perp.orders[id]
         IN (IF o.price = p THEN o.size ELSE 0) + SumOf(ids \ {id}, p)

\* The best price among the live orders of a side, with the sum of their
\* sizes at that price.
BestLive(side) ==
    LET ids == LiveOn(side)
        ps == {exch.perp.orders[id].price : id \in ids}
    IN IF ids = {} THEN None
       ELSE LET p == IF side = "Ask"
                     THEN CHOOSE x \in ps : \A y \in ps : x <= y
                     ELSE CHOOSE x \in ps : \A y \in ps : x >= y
            IN Some(<<p, SumOf(ids, p)>>)

\* An order with an expiry block is expired exactly when the exchange has
\* applied that block.
C12_ExpiredAtBlock ==
    \A id \in DOMAIN exch.perp.orders :
        LET o == exch.perp.orders[id] IN
        o.expiry_block > 0 =>
            (is_expired(o) <=> o.expiry_block <= exch.instant.block_number)

\* The end-of-block step of the next block, for a block without events: an
\* order is turned expired if the block is its expiry block, and stays in
\* the orders and in its queue.
C12_EndOfBlock ==
    \A id \in DOMAIN exch.perp.orders :
        LET o == exch.perp.orders[id]
            r == Applied(NextBlock, <<>>)
        IN (o.expiry_block > 0 /\ ~is_expired(o)) =>
           /\ r.err = ""
           /\ id \in DOMAIN r.exchange.perp.orders
           /\ is_expired(r.exchange.perp.orders[id]) <=> (o.expiry_block <= NextBlock)
           /\ (id \in r.expired) <=> (o.expiry_block <= NextBlock)
           /\ QueueAt(r.exchange.perp.book, Side(o.type), o.price)
                = QueueAt(exch.perp.book, Side(o.type), o.price)

\* best_ask and best_bid are the best price, and the size at it, of the
\* orders that are not expired.
C12_BestIgnoresExpired ==
    \A side \in BookSides : Best(exch.perp.book, side) = BestLive(side)

\* C12: an order with expiry_block = E > 0 resting in the book is not
\* expired while the exchange is at a block below E, and is expired once
\* block E has been applied (end-of-block step); from then on best_ask and
\* best_bid ignore it in both price and size, while the order is still
\* contained in the perpetual's orders.
C12_ExpiryAtBlock ==
    /\ C12_ExpiredAtBlock
    /\ C12_EndOfBlock
    /\ C12_BestIgnoresExpired

\* C12 witness: the exchange has applied the expiry block of an ask that is
\* still in the orders, expired, at the lower price; the best ask is the live
\* order at the upper price.
C12_Witness ==
    /\ exch.instant.block_number >= ExpiryBlock
    /\ \E id \in DOMAIN exch.perp.orders :
         LET o == exch.perp.orders[id] IN
         /\ o.expiry_block = ExpiryBlock
         /\ is_expired(o)
         /\ o.type = "OpenShort"
         /\ o.price = 100
         /\ InBookAt(exch.perp.book, o)
    /\ best_ask(exch.perp.book) = Some(<<101, 1>>)

\* The instants an order may be looked at.
Instants == {InstantOf(n) : n \in 0..(MaxExBlock + 1)}

\* An order without expiry block is not expired, and update_if_expired
\* leaves it as it is at any instant.
C13_ZeroNeverExpires ==
    \A id \in DOMAIN exch.perp.orders :
        LET o == exch.perp.orders[id] IN
        o.expiry_block = 0 =>
            /\ ~is_expired(o)
            /\ \A i \in Instants :
                  update_if_expired(o, i) = [order |-> o, changed |-> FALSE]
            /\ id \notin ExpiredBy(exch.perp, InstantOf(NextBlock))

\* is_expired is decided by the order's expiry block and its own instant.
C13_IsExpired ==
    \A id \in DOMAIN exch.perp.orders :
        LET o == exch.perp.orders[id] IN
        is_expired(o) <=> (o.expiry_block # 0 /\ o.expiry_block <= o.instant.block_number)

\* C13: an order with expiry_block = 0 is never expired: at every instant
\* is_expired() is false and update_if_expired returns false without changing
\* the order, after any sequence of updates that leave expiry_block at 0; in
\* general is_expired() holds exactly when expiry_block is not 0 and is at
\* most the order's instant.block_number.
C13_NoExpiryAtZero ==
    /\ C13_ZeroNeverExpires
    /\ C13_IsExpired

\* C13 witness: an order without expiry block has been filled in part in the
\* last block, after the expiry block of the other order passed, and is live.
C13_Witness ==
    /\ "PartialFill" \in notes
    /\ exch.instant.block_number > ExpiryBlock
    /\ \E id \in DOMAIN exch.perp.orders :
         LET o == exch.perp.orders[id] IN
         /\ o.expiry_block = 0
         /\ o.size < MaxSize
         /\ o.instant = exch.instant
         /\ ~is_expired(o)

\* ------------------------------------------------------------------------
\* Properties of the trade processor
\* ------------------------------------------------------------------------
OkTradeItems == {i \in 1..Len(tradeItems) : tradeItems[i].kind = "Ok"}

\* The trades a block's TakerOrderFilled events emitted, in order.
RECURSIVE Emitted(_)
Emitted(takes) ==
    IF takes = <<>> THEN <<>> ELSE Head(takes).trade \o Emitted(Tail(takes))

SameTx(t) ==
    \A k \in 1..Len(t.buffer) : t.buffer[k].tx_hash = t.taker.tx_hash

\* C14: on TakerOrderFilled the trade processor emits one Trade made of
\* exactly the maker fills buffered since the last reset, in arrival order,
\* and only if every buffered fill has the taker event's tx_hash; if any
\* buffered fill has a different tx_hash, no Trade is emitted and the buffer
\* is emptied.  Hence every maker fill inside an emitted Trade comes from the
\* same transaction as the taker fill.
C14_TakerFill ==
    \A i \in OkTradeItems :
        /\ tradeItems[i].trades = Emitted(tradeItems[i].takes)
        /\ \A j \in 1..Len(tradeItems[i].takes) :
             LET t == tradeItems[i].takes[j] IN
             /\ t.left = <<>>
             /\ ~SameTx(t) => t.trade = None
             /\ t.trade # None =>
                  /\ SameTx(t)
                  /\ t.trade[1].tx_hash = t.taker.tx_hash
                  /\ t.trade[1].maker_fills
                       = [k \in 1..Len(t.buffer) |-> MakerFill(t.buffer[k])]

\* C14 witness: in the second block a TakerOrderFilled that had an order
\* context found a fill of its own transaction behind a fill left by the
\* first block, emitted nothing and emptied the buffer.
C14_Witness ==
    /\ Len(tradeItems) = 2
    /\ OkTradeItems = {1, 2}
    /\ \E j \in 1..Len(tradeItems[2].takes) :
         LET t == tradeItems[2].takes[j] IN
         /\ t.context # None
         /\ Len(t.buffer) = 2
         /\ t.buffer[1].tx_hash # t.taker.tx_hash
         /\ t.buffer[2].tx_hash = t.taker.tx_hash
         /\ t.trade = None
         /\ t.left = <<>>

\* C15: the trade processor is stateless per block: the BlockTrades
\* process_block returns for a block depend only on that block's events, not
\* on the blocks processed before; a context or maker fills left pending at
\* the end of a block neither contribute to nor suppress a trade of the next.
C15_StatelessPerBlock ==
    ~panicked =>
    \A shapes \in TradeBlocks :
        LET block == RawTradeBlock(NextRawBlock, shapes) IN
        process_block(processor, block).trades = process_block(NewProcessor, block).trades

\* The entries a snapshot may hold for an order.
SnapshotEntries ==
    [orderId : 0..MaxOrderId, orderType : PlacedTypes, price : Prices,
     size : Sizes, expiryBlock : {0, ExpiryBlock}]

\* C16: order id 0 in decoded input is reported as an error value and never
\* makes the engine panic: a snapshot order with orderId = 0 yields an error
\* from order construction, and a MakerOrderFilled with orderId = 0 reaching
\* the trade processor yields an error for that event instead of aborting
\* the stream.
C16_ZeroOrderId ==
    /\ \A e \in SnapshotEntries :
         e.orderId = 0 => from_snapshot(exch.instant, e).err = "ZeroOrderId"
    /\ ~panicked

\* ------------------------------------------------------------------------
\* Properties of the raw stream's errors, empty blocks and event order
\* ------------------------------------------------------------------------

\* The number of Ok items among the first k items.
OkBefore(k) == Len(SelectSeq(SubSeq(items, 1, k), IsOkItem))

\* The round of the stream has failed with an error other than "block not
\* available".
ProviderError ==
    /\ spc = "join"
    /\ JoinReady(blockAns, logsAns)
    /\ RawResult(blockAns, logsAns, block_num).kind = "Err"

\* Every item, Ok or Err, is for the block after the Ok items before it, and
\* so is the block polled next: an error neither advances nor loses the
\* position.
C17_Position ==
    /\ \A i \in 1..Len(items) : items[i].block_number = from + OkBefore(i - 1)
    /\ block_num = from + OkBefore(Len(items))

\* (a step that leaves the chain alone is a step of the stream)
C17_ErrStep ==
    ProviderError /\ chain' = chain
        => /\ Len(items') = Len(items) + 1
           /\ SubSeq(items', 1, Len(items)) = items
           /\ items'[Len(items')].kind = "Err"
           /\ items'[Len(items')].block_number = block_num
           /\ block_num' = block_num
           /\ spc' = "idle"

\* Items are only yielded by a finished round, one at a time; a round that
\* yields none is one that found the block not available.
C17_NoneSwallowed ==
    /\ Len(items') # Len(items) => (spc = "join" /\ Len(items') = Len(items) + 1)
    /\ (spc = "join" /\ spc' = "sleep")
          => RawResult(blockAns, logsAns, block_num).kind = "InvalidRequest"

\* C17: an RPC or decode error while polling block N is yielded as exactly one
\* Err stream item and the stream position stays at N: when the consumer
\* polls again, block N is fetched again and the next Ok item is N.  Only the
\* block-not-available case is retried inside the stream; no other error is
\* swallowed and no block is skipped because of an error.
C17_ErrorsSurface ==
    /\ [](C17_Position)
    /\ [][C17_ErrStep /\ C17_NoneSwallowed]_vars

\* C17 witness: the first poll yielded an error for block N, the second poll
\* yielded block N, and the stream stands at N + 1.
C17_Witness ==
    /\ Len(items) = 2
    /\ items[1].kind = "Err"
    /\ items[2].kind = "Ok"
    /\ items[2].block_number = items[1].block_number
    /\ block_num = items[2].block_number + 1
    /\ spc = "idle"

\* The provider answered the round with an available block without logs.
EmptyHit == ProviderHit /\ logsAns.logs = <<>>

\* (a step that leaves the chain alone is a step of the stream)
C18_EmptyStep ==
    EmptyHit /\ chain' = chain
        => items' = Append(items, [kind |-> "Ok", block_number |-> block_num,
                                   events |-> <<>>,
                                   timestamp |-> BlockTimestamp(block_num)])

\* The trade stream has one item per item of the raw stream: for an Ok block
\* a BlockTrades with the block's instant, holding the trades the block's
\* TakerOrderFilled events completed, none for a block without events.
C18_OnePerBlock ==
    /\ Len(tradeItems) = Len(items)
    /\ \A i \in 1..Len(items) :
         /\ tradeItems[i].kind = items[i].kind
         /\ items[i].kind = "Ok" =>
              /\ tradeItems[i].instant = InstantOf(items[i].block_number)
              /\ tradeItems[i].trades = Emitted(tradeItems[i].takes)
              /\ items[i].events = <<>> => tradeItems[i].trades = <<>>

\* C18: a block without exchange events still produces an item: for an
\* available block whose log list is empty the raw stream yields Ok with an
\* empty event list and the block's instant, and the trade stream yields
\* exactly one BlockTrades per Ok raw block, with the same instant, empty
\* when the block completes no trade.
C18_EmptyBlocks ==
    /\ [](C18_OnePerBlock)
    /\ [][C18_EmptyStep]_vars

\* C18 witness: the stream has yielded a block without logs, for which the
\* trade stream yielded an empty BlockTrades, and a block with a trade.
C18_Witness ==
    /\ \E i \in 1..Len(items) :
         /\ items[i].kind = "Ok"
         /\ items[i].events = <<>>
         /\ chain[items[i].block_number] = <<>>
         /\ tradeItems[i].kind = "Ok"
         /\ tradeItems[i].trades = <<>>
    /\ \E j \in 1..Len(tradeItems) : Len(tradeItems[j].trades) = 1

\* (tx_index, log_index) of a is before that of b.
Before(a, b) ==
    \/ a.tx_index < b.tx_index
    \/ (a.tx_index = b.tx_index /\ a.log_index < b.log_index)

\* C19: within each block item of the raw stream the events are in ascending
\* (tx_index, log_index) order, for any list of logs the provider returns for
\* that block.
C19_EventsOrdered ==
    \A i \in 1..Len(items) :
        \A k \in 1..(Len(items[i].events) - 1) :
            Before(items[i].events[k], items[i].events[k + 1])

\* ------------------------------------------------------------------------
\* Properties of the shared exchange
\* ------------------------------------------------------------------------

\* Indexer::run is at an await: stream.next() or a channel send.
Suspended == ipc \in {"next", "send"}

\* The write guard is alive exactly while apply_events runs, so at no
\* suspension point; a read guard and the write guard are never alive
\* together; and under a read guard the exchange is the exchange after the
\* last block that was applied whole.
C20_Guards ==
    /\ writer <=> ipc = "apply"
    /\ Suspended => ~writer
    /\ ~(writer /\ readers > 0)
    /\ readers > 0 => exch = committed

\* The exchange is written only under the write guard, and what one call
\* leaves behind is what apply_events gives for the batch: the block applied
\* whole, or nothing of it.
C20_Writes ==
    /\ exch' # exch => writer
    /\ (writer /\ ~writer') =>
          LET r == apply_events(saved[1], batch[1]) IN
          /\ exch' = r.exchange
          /\ lastRes' = (IF r.err = "" THEN "Ok" ELSE r.err)
          /\ exch' = committed'

\* C20: the shared exchange is written only while the write lock is held for
\* one apply_events call on one block, and the lock is released before any
\* suspension point (stream poll, channel send, sleep); consequently a reader
\* holding the read lock always observes the state after a whole number of
\* applied blocks, never a partially applied block.
C20_LockDiscipline ==
    /\ [](C20_Guards)
    /\ [][C20_Writes]_vars

\* C20 witness: a reader holds a read guard on an exchange that has applied
\* a block and holds an order, while the indexer, with a batch of two events
\* in hand, waits for the write guard.
C20_Witness ==
    /\ readers > 0
    /\ ipc = "lock"
    /\ Len(batch[1].events) = 2
    /\ exch.instant.block_number > snapshotAt
    /\ DOMAIN exch.perp.orders # {}
    /\ exch = committed

ComparedState(ex) ==
    [instant |-> ex.instant,
     orders |-> [id \in DOMAIN ex.perp.orders |->
                    [type |-> ex.perp.orders[id].type,
                     price |-> ex.perp.orders[id].price,
                     size |-> ex.perp.orders[id].size,
                     expiry_block |-> ex.perp.orders[id].expiry_block,
                     expired |-> is_expired(ex.perp.orders[id])]],
     asks |-> ex.perp.book.asks,
     bids |-> ex.perp.book.bids,
     links |-> [id \in DOMAIN ex.perp.book.orders |->
                   <<ex.perp.book.orders[id].prev, ex.perp.book.orders[id].next>>],
     best |-> <<best_ask(ex.perp.book), best_bid(ex.perp.book)>>]

LevelMembers(book, side, price) ==
    {id \in DOMAIN book.orders :
        /\ Side(book.orders[id].order.type) = side
        /\ book.orders[id].order.price = price}

WellFormedLevel(book, side, price) ==
    LET level == SideLevels(book, side)[price]
        members == LevelMembers(book, side, price)
        q == LevelQueue(book, level)
    IN /\ members # {}
       /\ level.head \in members
       /\ level.tail \in members
       /\ book.orders[level.head].prev = NoOrderId
       /\ book.orders[level.tail].next = NoOrderId
       /\ \A a \in members :
            /\ book.orders[a].next \in members \cup {NoOrderId}
            /\ book.orders[a].prev \in members \cup {NoOrderId}
            /\ \A b \in members :
                 (book.orders[a].next = b) <=> (book.orders[b].prev = a)
       /\ Len(q) = Cardinality(members)
       /\ {q[i] : i \in 1..Len(q)} = members
       /\ q[Len(q)] = level.tail

WellFormedBook(book) ==
    /\ \A side \in {"Ask", "Bid"} :
         \A price \in DOMAIN SideLevels(book, side) :
            WellFormedLevel(book, side, price)
    /\ \A id \in DOMAIN book.orders :
         book.orders[id].order.price
             \in DOMAIN SideLevels(book, Side(book.orders[id].order.type))

C24_QueuesWellFormed == WellFormedBook(exch.perp.book)

\* A book just rebuilt from a snapshot with pointers that name absent orders,
\* holding a level with three queued orders.
C24_Witness ==
    /\ notes = {"Rebuilt", "AbsentLinks"}
    /\ \E side \in {"Ask", "Bid"} :
         \E price \in DOMAIN SideLevels(exch.perp.book, side) :
            Len(LevelQueue(exch.perp.book,
                           SideLevels(exch.perp.book, side)[price])) = 3
\* ------------------------------------------------------------------------
\* C25: a level all of whose orders are expired is skipped by best_ask and
\* best_bid, is still listed with its orders by the view with
\* show_expired = true, and its orders are not listed with
\* show_expired = false (depth and orders_per_level unlimited).
\* ------------------------------------------------------------------------

\* The order ids a rendered view lists.
ListedCompact(v) ==
    UNION {{v.asks[i].orders[j] : j \in 1..Len(v.asks[i].orders)} : i \in 1..Len(v.asks)}
    \cup UNION {{v.bids[i].orders[j] : j \in 1..Len(v.bids[i].orders)} : i \in 1..Len(v.bids)}

ListedPlain(v) ==
    {v.asks[i] : i \in 1..Len(v.asks)} \cup {v.bids[i] : i \in 1..Len(v.bids)}

\* The levels of a side all of whose orders are expired.
ExpiredLevels(book, side) ==
    {p \in DOMAIN SideLevels(book, side) :
        \A id \in LevelMembers(book, side, p) : is_expired(book.orders[id].order)}

\* The claim for the compact representation, the one `show book` prints.
C25_ExpiredLevelInCompactView ==
    LET book == exch.perp.book IN
    \A side \in {"Ask", "Bid"} : \A p \in ExpiredLevels(book, side) :
        /\ best_ask(book) # None => (side = "Ask" => best_ask(book)[1][1] # p)
        /\ best_bid(book) # None => (side = "Bid" => best_bid(book)[1][1] # p)
        /\ LevelMembers(book, side, p)
              \subseteq ListedCompact(view_compact(book, None, None, TRUE))
        /\ LevelMembers(book, side, p)
              \cap ListedCompact(view_compact(book, None, None, FALSE)) = {}

\* The claim for the plain table.
C25_ExpiredLevelInPlainView ==
    LET book == exch.perp.book IN
    \A side \in {"Ask", "Bid"} : \A p \in ExpiredLevels(book, side) :
        /\ LevelMembers(book, side, p)
              \subseteq ListedPlain(view_plain(book, None, None, TRUE))
        /\ LevelMembers(book, side, p)
              \cap ListedPlain(view_plain(book, None, None, FALSE)) = {}

C25_ExpiredLevelListed ==
    C25_ExpiredLevelInCompactView /\ C25_ExpiredLevelInPlainView
\* ------------------------------------------------------------------------
\* C26: update_order and remove_order called for an order id that is not in
\* the orders map return OrderNotFound with the perpetual's id and the order
\* id of the call, and leave the orders map and the book as they were.
\* ------------------------------------------------------------------------
C26_AbsentCallRefused ==
    "Absent" \in notes' =>
        /\ lastRes'.result = OrderNotFound(lastRes'.call[2], lastRes'.call[3])
        /\ lastRes'.call[3] \notin DOMAIN exch.perp.orders
        /\ exch'.perp.orders = exch.perp.orders
        /\ exch'.perp.book = exch.perp.book

C26_AbsentOrderNotFound == [][C26_AbsentCallRefused]_vars

\* update_order was refused for an id that is vacant while the book holds
\* other orders.
C26_Witness ==
    /\ notes = {"Absent"}
    /\ lastRes.call[1] = "update_order"
    /\ lastRes.result.err = "OrderNotFound"
    /\ Cardinality(DOMAIN exch.perp.orders) = 2
    /\ lastRes.call[3] \notin DOMAIN exch.perp.orders
\* ------------------------------------------------------------------------
\* C27: if block N becomes available and the RPC calls do not fail, a
\* consumer that keeps polling eventually receives the item of N.  While N
\* is unavailable the stream yields no error and does not end: each miss is
\* followed by the poll-interval sleep, and after the sleep the same block is
\* requested again.
\* ------------------------------------------------------------------------

\* The consumer has received the Ok item of block n.
ReceivedBlock(n) ==
    \E i \in 1..Len(items) : items[i].kind = "Ok" /\ items[i].block_number = n

\* Leaving the sleep leads back to the requests for the same block.
C27_RetrySameBlock ==
    (spc = "sleep" /\ spc' # "sleep")
        => /\ spc' = "join"
           /\ block_num' = block_num
           /\ items' = items
           /\ blockAns' = "pending"
           /\ logsAns' = Pending

C27_EventuallyDelivered ==
    /\ \A n \in 1..MaxBlock : (n >= from) ~> ReceivedBlock(n)
    /\ [](\A i \in 1..Len(items) : items[i].kind = "Ok")
    /\ (spc = "sleep") ~> (spc = "join")
    /\ [][C27_RetrySameBlock]_vars

\* The item of block MaxBlock was received by a poll that found the block
\* missing and slept before.
C27_Witness ==
    /\ spc = "idle"
    /\ callMisses >= 1
    /\ nSleeps >= 1
    /\ ReceivedBlock(MaxBlock)
    /\ items[Len(items)].block_number = MaxBlock
\* ------------------------------------------------------------------------
\* C28: trace, show book and show account look at the cancellation token
\* and at the remaining-block counter only at the head of the loop body.  An
\* apply_events call that has started completes, cancelled or not; once the
\* head has seen the token cancelled or the counter at 0 no further block is
\* applied; with num_blocks = n at most n blocks are applied, and the loop is
\* left on the item that follows the n-th applied block.
\* ------------------------------------------------------------------------
C28_LoopStep ==
    /\ (cpc = "apply" /\ cpc' # "apply")
         => \/ handed' = Append(handed, cliItem.block.instant.block_number)
            \/ (cmdResult' = "Err" /\ "ApplyErr" \in notes')
    /\ (cpc = "item" /\ cpc' # "item" /\ consumer # "trades"
           /\ loop_breaks(cancelled, blocks_left))
         => (cpc' = "done" /\ handed' = handed /\ exch' = exch)
    /\ handed' # handed => cpc = "apply"
    /\ cpc \in {"done", "exited"} => (handed' = handed /\ exch' = exch)

C28_AtMostNumBlocks ==
    (consumer # "trades" /\ num_blocks # None)
        => /\ Len(handed) <= num_blocks[1]
           /\ cpc \in {"await", "item", "apply"}
                => blocks_left = Some(num_blocks[1] - Len(handed))

C28_CheckedBetweenBlocks ==
    /\ [][C28_LoopStep]_vars
    /\ []C28_AtMostNumBlocks
    /\ (cpc = "apply") ~> (cpc # "apply")

\* The loop was left, without cancellation, on the item that followed the
\* second applied block of a command started with num_blocks = 2.
C28_Witness ==
    /\ consumer \in {"trace", "book", "account"}
    /\ num_blocks = Some(2)
    /\ ~cancelled
    /\ Len(handed) = 2
    /\ cpc = "done"
    /\ cmdResult = "Ok"
    /\ cliItem.kind = "Ok"
    /\ cliItem.block.instant.block_number = 3

\* ------------------------------------------------------------------------
\* C29: every error that ends a command is returned from it, so that main
\* exits with a non-zero status: no command returns success after its stream
\* produced an error, after apply_events failed or after a write failed.
\* ------------------------------------------------------------------------
C29_ErrorsReturned ==
    /\ (cpc \in {"done", "exited"} /\ notes \cap {"StreamErr", "ApplyErr", "IoErr"} # {})
         => cmdResult = "Err"
    /\ cpc = "exited" => (exit_code # 0 <=> cmdResult = "Err")

\* The part of C29 that concerns the errors of apply_events and of main.
C29_ApplyErrorsReturned ==
    /\ (cpc \in {"done", "exited"} /\ notes \cap {"ApplyErr", "IoErr"} # {})
         => cmdResult = "Err"
    /\ cpc = "exited" => (exit_code # 0 <=> cmdResult = "Err")
\* ------------------------------------------------------------------------
\* C30: for every order whose placed_size is known, size <= placed_size.
\* Order::placed sets placed_size to the size, a maker fill lowers the size,
\* and Order::updated keeps the old placed_size unless its caller passes a
\* new one.  Whether the handler of OrderChanged passes one is decided
\* outside the modelled sources.  The predicate below holds in SpecReplay,
\* SpecChain and SpecExchange, whose Change events never raise a size above
\* the placed one; it is not an invariant of SpecPerpetual, where
\* update_order is given an order made by Order::updated with a larger size
\* and no new placed_size.
\* ------------------------------------------------------------------------
SizeWithinPlaced(perp) ==
    \A id \in DOMAIN perp.orders :
        perp.orders[id].placed_size # None
            => perp.orders[id].size <= perp.orders[id].placed_size[1]

OrdersWithinPlaced == SizeWithinPlaced(exch.perp)

\* ------------------------------------------------------------------------
\* C31: an account holds at most one position per perpetual; a position is
\* created by the first fill that opens it and removed when its size
\* reaches 0, so no account's positions map holds a position of size 0:
\* every position in a map has a positive size, a fill on an account
\* without a position creates one of the fill's size, and a fill that
\* closes a position whole leaves the account without one.
\* ------------------------------------------------------------------------
C31_PositionsOpen ==
    \A a \in PositionAccounts :
        /\ DOMAIN exch.accounts[a].positions \subseteq PositionPerpetuals
        /\ \A p \in DOMAIN exch.accounts[a].positions :
               /\ exch.accounts[a].positions[p].size \in 1..MaxPositionSize
               /\ exch.accounts[a].positions[p].type \in {"Long", "Short"}

\* What a fill does to the position of one of its two accounts.
C31_AccountStep(a, side) ==
    LET f == lastRes'
        before == PositionOf(exch, a, f.perp)
        after == PositionOf(exch', a, f.perp)
    IN  /\ before = None =>
              after = Some(Position(PositionTypeOf(side), f.size))
        /\ (before # None /\ before[1].type # PositionTypeOf(side)
              /\ before[1].size = f.size) => after = None
        /\ \A p \in PositionPerpetuals \ {f.perp} :
              PositionOf(exch', a, p) = PositionOf(exch, a, p)

C31_FillStep ==
    LET f == lastRes' IN
    /\ C31_AccountStep(f.taker, f.taker_side)
    /\ C31_AccountStep(f.maker, IF f.taker_side = "Bid" THEN "Ask" ELSE "Bid")
    /\ \A a \in PositionAccounts \ {f.maker, f.taker} :
          exch'.accounts[a] = exch.accounts[a]

C31_PositionLifecycle == []C31_PositionsOpen /\ [][C31_FillStep]_vars

\* Maker and taker have just closed their positions on a perpetual whole.
C31_Witness ==
    /\ lastRes # None
    /\ PositionOf(exch, lastRes.maker, lastRes.perp) = None
    /\ PositionOf(exch, lastRes.taker, lastRes.perp) = None

\* ------------------------------------------------------------------------
\* C32: after any sequence of applied fills a perpetual's open_interest
\* equals the total size of the long positions open on it, which equals the
\* total size of the short positions, and the unsigned subtraction of
\* update_open_interest never underflows; it is the fill's size after a
\* fill between two accounts without positions and 0 once every position
\* is closed.
\* ------------------------------------------------------------------------
RECURSIVE PositionsTotal(_, _, _, _)
PositionsTotal(ex, accounts, perp, type) ==
    IF accounts = {} THEN 0
    ELSE LET a == CHOOSE x \in accounts : TRUE
             pos == PositionOf(ex, a, perp)
         IN  (IF pos # None /\ pos[1].type = type THEN pos[1].size ELSE 0)
               + PositionsTotal(ex, accounts \ {a}, perp, type)

C33_AvailableBalance ==
    /\ \A a \in PositionAccounts :
         LET acc == exch.accounts[a]
             diff == acc.balance - acc.locked_balance
         IN  /\ ~available_balance(acc).underflow
             /\ available_balance(acc).value = Some(IF diff > 0 THEN diff ELSE 0)
             /\ acc.locked_balance <= acc.balance
                  => available_balance(acc).value = Some(acc.balance - acc.locked_balance)
             /\ acc.locked_balance > acc.balance
                  => available_balance(acc).value = Some(0)
    /\ lastRes # None =>
         lastRes.available = available_balance(exch.accounts[lastRes.account])

\* One account has more locked than it holds, another has less locked than
\* it holds, and the available balance has just been read.
C33_Witness ==
    /\ lastRes # None
    /\ exch.accounts[lastRes.account].locked_balance
         > exch.accounts[lastRes.account].balance
    /\ exch.accounts[lastRes.account].balance > 0
    /\ \E a \in PositionAccounts :
         /\ exch.accounts[a].locked_balance > 0
         /\ exch.accounts[a].locked_balance < exch.accounts[a].balance

\* ------------------------------------------------------------------------
\* C34: an Ok item for block N contains every exchange log of block N, also
\* when block N is produced while get_block(N) and get_logs(N..N) are in
\* flight: the events of every Ok item are the logs of its block on the
\* chain, one event per log, in order.
\* ------------------------------------------------------------------------
C34_LogsOfItsBlock ==
    \A i \in 1..Len(items) :
        items[i].kind = "Ok" =>
            /\ items[i].block_number <= Len(chain)
            /\ items[i].events
                 = [j \in 1..Len(chain[items[i].block_number]) |->
                       RawEvent(chain[items[i].block_number][j])]

\* ------------------------------------------------------------------------
\* C35: for every order with expiry_block = E > 0 that is still resting at
\* the end of block E, the state events of block E contain an OrderExpired
\* for it, also when the order was placed, changed or partially filled
\* during block E itself.
\* ------------------------------------------------------------------------
C35_ExpiredReported ==
    exch.instant.block_number > 0 =>
        \A id \in DOMAIN exch.perp.orders :
            exch.perp.orders[id].expiry_block = exch.instant.block_number
                => id \in lastRes.expired

\* The other half of the claim: OrderExpired is emitted for an order only
\* by the end-of-block step of its expiry block, hence at most once per
\* expiry.
C35_AtMostOnce ==
    exch.instant.block_number > 0 =>
        \A id \in lastRes.expired :
            /\ id \in DOMAIN exch.perp.orders
            /\ exch.perp.orders[id].expiry_block = exch.instant.block_number

\* ------------------------------------------------------------------------
\* C36: the taker_account_id and taker_side of every emitted Trade are those
\* of the most recent OrderRequest that precedes the TakerOrderFilled in the
\* same transaction; an OrderRequest of a type without a side does not leave
\* the context of an earlier request in force for later fills.
\* ------------------------------------------------------------------------

\* The positions of the OrderRequest events of the trade's transaction that
\* precede its TakerOrderFilled in the block.
RequestsBefore(events, trade) ==
    {j \in 1..trade.log_index :
        events[j].kind = "OrderRequest" /\ events[j].tx_hash = trade.tx_hash}

C36_TakerOfLastRequest ==
    \A n \in OkTradeItems :
        \A k \in 1..Len(tradeItems[n].trades) :
            LET trade == tradeItems[n].trades[k]
                reqs == RequestsBefore(chain[n], trade)
            IN  /\ reqs # {}
                /\ LET last == CHOOSE j \in reqs : \A i \in reqs : i <= j IN
                   /\ chain[n][last].has_side
                   /\ trade.taker = OrderContext(chain[n][last])

\* What does hold: the taker of a Trade is taken from the most recent
\* OrderRequest of a type with a side that precedes the TakerOrderFilled in
\* its transaction.
C36_TakerOfLastSidedRequest ==
    \A n \in OkTradeItems :
        \A k \in 1..Len(tradeItems[n].trades) :
            LET trade == tradeItems[n].trades[k]
                reqs == {j \in RequestsBefore(chain[n], trade) : chain[n][j].has_side}
            IN  /\ reqs # {}
                /\ trade.taker
                     = OrderContext(chain[n][CHOOSE j \in reqs : \A i \in reqs : i <= j])

\* ------------------------------------------------------------------------
\* C37: within a block, after an OrderBatchCompleted event and whenever an
\* event's tx_index is greater than the previous event's, the processor's
\* order context is None and its pending maker fills are empty before the
\* event is handled; so a Trade never contains a maker fill that precedes
\* the latest OrderBatchCompleted or that belongs to an earlier transaction
\* of the block.
\* ------------------------------------------------------------------------

\* The processor as the i-th event of the block finds it, after the reset
\* at the head of the loop body.
RECURSIVE BeforeEvent(_, _, _)
BeforeEvent(tp, events, i) ==
    IF i = 1 THEN AtEvent(tp, events[1])
    ELSE LET r == process_event(BeforeEvent(tp, events, i - 1), events[i - 1]) IN
         AtEvent([r.tp EXCEPT !.prev_tx_index = Some(events[i - 1].tx_index)],
                 events[i])

C37_ClearedBefore(tp, events) ==
    \A i \in 2..Len(events) :
        (\/ events[i - 1].kind = "OrderBatchCompleted"
         \/ events[i].tx_index > events[i - 1].tx_index)
        => /\ BeforeEvent(tp, events, i).order_context = None
           /\ BeforeEvent(tp, events, i).pending_maker_fills = <<>>

C37_FillsOfTrade(events, trade) ==
    \A k \in 1..Len(trade.maker_fills) :
        LET m == trade.maker_fills[k].log_index + 1 IN
        /\ m \in 1..trade.log_index
        /\ events[m].kind = "MakerOrderFilled"
        /\ events[m].tx_index = trade.tx_index
        /\ \A j \in m..trade.log_index : events[j].kind # "OrderBatchCompleted"

\* A step that processes a block.
C37_Step ==
    (chain' # chain /\ ~panicked') =>
        LET events == chain'[Len(chain')]
            item == tradeItems'[Len(tradeItems')]
        IN  /\ C37_ClearedBefore(processor, events)
            /\ \A k \in 1..Len(item.trades) : C37_FillsOfTrade(events, item.trades[k])

C37_ResetPerTransaction == [][C37_Step]_vars

\* A block whose first transaction left a maker fill pending and whose
\* second transaction traded: the Trade holds the second transaction's fill
\* only.
C37_Witness ==
    /\ Len(chain) = 1
    /\ Len(chain[1]) = 4
    /\ chain[1][1].kind = "MakerOrderFilled"
    /\ chain[1][1].tx_index = 0
    /\ chain[1][2].tx_index = 1
    /\ Len(tradeItems) = 1
    /\ Len(tradeItems[1].trades) = 1
    /\ Len(tradeItems[1].trades[1].maker_fills) = 1
    /\ tradeItems[1].trades[1].maker_fills[1].log_index = 2

\* ------------------------------------------------------------------------
\* C38: in the Indexer, apply_events has been called on block N, and for a
\* block it accepted the shared snapshot has reached N, before block N's raw
\* events and state events are sent on the channels; the batches are sent in
\* increasing block order; once wait_for has returned true for block N,
\* the shared snapshot is at block N or later, and so is every copy of it the
\* consumer takes afterwards.
\* ------------------------------------------------------------------------

\* The block numbers of a sequence of batches.
BatchNumbers(q) == [i \in 1..Len(q) |-> q[i].instant.block_number]

\* The state events received last followed by those still queued.
C38_StateEventsSent ==
    (IF cliItem = None THEN <<>> ELSE <<cliItem[1]>>) \o tradeItems

C38_AppliedBeforeSent ==
    /\ \A i \in 1..Len(items) :
         /\ \E j \in 1..Len(handed) : handed[j] = items[i].instant.block_number
         /\ \/ items[i].instant.block_number <= exch.instant.block_number
            \/ i = Len(items) /\ lastRes # "Ok"
    /\ \A i \in 1..Len(C38_StateEventsSent) :
         /\ C38_StateEventsSent[i].instant.block_number <= exch.instant.block_number
         /\ \E j \in 1..Len(items) : items[j].instant = C38_StateEventsSent[i].instant

C38_Increasing(q) == \A i \in 1..(Len(q) - 1) : q[i] < q[i + 1]

C38_IncreasingOrder ==
    /\ C38_Increasing(BatchNumbers(items))
    /\ C38_Increasing(BatchNumbers(C38_StateEventsSent))

C38_WaitedBlockReflected ==
    cpc = "true" =>
        /\ cliItem[1].instant.block_number = num_blocks[1]
        /\ exch.instant.block_number >= num_blocks[1]
        /\ replica # None => replica[1].instant.block_number >= num_blocks[1]

C39_AgedAt(ts, perp) == ts + perp.price_max_age <= exch.instant.block_timestamp

C39_ObsoleteAtLastBlock ==
    \A p \in PositionPerpetuals :
        LET perp == exch.perpetuals[p] IN
        /\ is_mark_price_obsolete(perp) <=> C39_AgedAt(perp.mark_price_timestamp, perp)
        /\ is_oracle_price_obsolete(perp) <=> C39_AgedAt(perp.oracle_price_timestamp, perp)

\* What holds: a flag that is true is right, and the flags of a perpetual
\* with an event in the last block applied are exact.
C39_ObsoleteOnlyIfAged ==
    \A p \in PositionPerpetuals :
        LET perp == exch.perpetuals[p] IN
        /\ is_mark_price_obsolete(perp) => C39_AgedAt(perp.mark_price_timestamp, perp)
        /\ is_oracle_price_obsolete(perp) => C39_AgedAt(perp.oracle_price_timestamp, perp)
        /\ perp.instant = exch.instant =>
             /\ is_mark_price_obsolete(perp) <=> C39_AgedAt(perp.mark_price_timestamp, perp)
             /\ is_oracle_price_obsolete(perp) <=> C39_AgedAt(perp.oracle_price_timestamp, perp)

\* ------------------------------------------------------------------------
\* C40: every Trade emitted by the trade processor has at least one maker
\* fill and its avg_price() is defined (not None), so that a consumer may
\* unwrap it; avg_price() is None only for a Trade without fills.
\* ------------------------------------------------------------------------

\* The trades emitted so far.
C40_Emitted ==
    UNION {{tradeItems[k].trades[j] : j \in 1..Len(tradeItems[k].trades)} :
            k \in 1..Len(tradeItems)}

C40_AvgPriceDefined ==
    \A trade \in C40_Emitted :
        /\ Len(trade.maker_fills) >= 1
        /\ avg_price(trade) # None

\* What holds: an emitted Trade has at least one maker fill; its avg_price()
\* is None exactly when its total size is zero, and is the sum of
\* price * size over the sum of size otherwise.
C40_AvgPriceOfSizedTrade ==
    \A trade \in C40_Emitted :
        /\ Len(trade.maker_fills) >= 1
        /\ avg_price(trade) = None <=> total_size(trade).mantissa = 0
        /\ avg_price(trade) # None =>
             /\ avg_price(trade)[1].num = total_value(trade).mantissa
             /\ avg_price(trade)[1].den = total_size(trade).mantissa
             /\ avg_price(trade)[1].den > 0
             /\ 100 * avg_price(trade)[1].den <= avg_price(trade)[1].num
             /\ avg_price(trade)[1].num <= 101 * avg_price(trade)[1].den

====
